---- MODULE Spec2Model ----
(***************************************************************************)
(* Model of common/exechelp-w32.c: the process handle (struct              *)
(* gnupg_process), its wait / terminate / control / release operations,    *)
(* the older pid based wait API (gnupg_wait_processes), the launchers     *)
(* gnupg_process_spawn, gnupg_spawn_process, gnupg_spawn_process_fd and    *)
(* gnupg_spawn_process_detached, the pipe factory and the command line     *)
(* builder build_w32_commandline.                                          *)
(*                                                                         *)
(* Every API call is one action.  What a call does is computed by an       *)
(* operator named after the C function; the operator returns the SET of    *)
(* outcomes the call can have (the OS primitives it uses may fail, and a   *)
(* blocking wait ends with whatever exit code the child chooses).  An      *)
(* outcome carries the new handle table P, the new OS process table O,     *)
(* the returned error code ec, the primitives called in order (tr) and     *)
(* the values written through the caller's out pointers (out).  A launch   *)
(* is computed block by block on a record of the call's locals (Frame);    *)
(* its outcomes are the frames the last block returns.                     *)
(***************************************************************************)
EXTENDS Integers, Sequences, FiniteSets, TLC

VARIABLES
  proc,       \* slot -> struct gnupg_process (plus its allocation state)
  os,         \* slot -> the OS process launched for that slot
  delivered,  \* slot -> stream -> number of live hand-offs to the caller
  last,       \* the most recent API call: what it was given and what it did
  launch,     \* the most recent launch call: its arguments and its outcome
  cmd         \* a call of build_w32_commandline: its arguments and its result

vars == <<proc, os, delivered, last, launch, cmd>>

\* ---------------------------------------------------------------- bounds
MaxExit == 1           \* children exit with a code in 0..MaxExit (or DwordMax)
DwordBits == 16        \* width the model gives a DWORD (the tool's integers
                       \* do not reach 2^32)
MaxList == 2           \* longest list given to gnupg_process_wait_list
MaxArgs == 2           \* most arguments given to build_w32_commandline
MaxChars == 2          \* most characters in its program name and arguments

\* ------------------------------------------------------ program constants
INVALID_HANDLE_VALUE == -1
DwordMax == 2 ^ DwordBits - 1   \* (unsigned long)-1

Slots == {1, 2}              \* the process handles the caller may create
Pids == {1, 2, 3}            \* the processes launched through the pid API
Streams == {"hd_in", "hd_out", "hd_err"}
ExitCodes == 0..MaxExit
PidExitCodes == ExitCodes \cup {DwordMax}

\* Kernel handle values.  The native process handle of slot i is i; the
\* retained pipe ends of slot i are three further distinct values.
StreamNo(s) == CASE s = "hd_in" -> 1 [] s = "hd_out" -> 2 [] s = "hd_err" -> 3
PipeEnd(i, s) == 10 * i + StreamNo(s)
IsPipeEnd(v) == \E i \in Slots, s \in Streams : v = PipeEnd(i, s)

\* (int)exc: a DWORD reinterpreted as a signed int of the same width.
IntOfDword(x) == IF x >= 2 ^ (DwordBits - 1) THEN x - 2 ^ DwordBits ELSE x

\* Launch flag combinations used for the lifecycle model.
PipeFlag(s) == CASE s = "hd_in" -> "STDIN_PIPE" [] s = "hd_out" -> "STDOUT_PIPE"
                 [] s = "hd_err" -> "STDERR_PIPE"
AllPipes == {PipeFlag(s) : s \in Streams}
FlagChoices == {{}, AllPipes, {"DETACHED"}}

\* ------------------------------------------------------------ data model
\* struct gnupg_process.  alloc is the allocation state of the record:
\* "none" (not yet created), "live", "freed" (after xfree).
NoProcess ==
  [alloc |-> "none", flags |-> {}, terminated |-> FALSE,
   hProcess |-> INVALID_HANDLE_VALUE, hd_in |-> INVALID_HANDLE_VALUE,
   hd_out |-> INVALID_HANDLE_VALUE, hd_err |-> INVALID_HANDLE_VALUE,
   exitcode |-> 0]

FreedProcess == [NoProcess EXCEPT !.alloc = "freed"]

NoOsProcess == [state |-> "none", code |-> 0]
GoneOsProcess == [state |-> "gone", code |-> 0]

Call(name, arg) == [call |-> name, arg |-> arg]
PRE == Call("pre_syscall", 0)
POST == Call("post_syscall", 0)

Outcome(P, O, ec, tr, out) == [P |-> P, O |-> O, ec |-> ec, tr |-> tr, out |-> out]

\* The fields of the handle a call found, as far as the claims read them.
Before(p) ==
  [terminated |-> p.terminated, hProcess |-> p.hProcess,
   held |-> {s \in Streams : p[s] # INVALID_HANDLE_VALUE}]

NoCall ==
  [op |-> "none", h |-> 0, list |-> <<>>, hang |-> FALSE, want |-> {},
   pre |-> Before(NoProcess), ec |-> "OK", tr |-> <<>>, out |-> <<>>,
   running |-> FALSE, wcode |-> "none", codes |-> <<>>]

\* No launch call has been made yet.
NoLaunch == [op |-> "none"]

\* build_w32_commandline is not looked at.
NoCmd == [stage |-> "none"]

Called(tr, name) == \E k \in 1..Len(tr) : tr[k].call = name
Position(tr, name) == CHOOSE k \in 1..Len(tr) : tr[k].call = name

\* ---------------------------------------------------------- OS primitives
\* TerminateProcess (hnd, exitcode): ends a running process with exitcode,
\* or fails.  It fails on a process that has already exited.  The sentinel
\* is not the handle of a launched child: the call then changes no child
\* and its result is left open.
TerminateProcess(O, hnd, exitcode) ==
  IF hnd \in DOMAIN O /\ O[hnd].state = "running"
    THEN {[O |-> [O EXCEPT ![hnd] = [state |-> "exited", code |-> exitcode]],
           ok |-> TRUE],
          [O |-> O, ok |-> FALSE]}
  ELSE IF hnd = INVALID_HANDLE_VALUE
    THEN {[O |-> O, ok |-> TRUE], [O |-> O, ok |-> FALSE]}
  ELSE {[O |-> O, ok |-> FALSE]}

\* WaitForSingleObject (hnd, hang ? INFINITE : 0).  A blocking wait on a
\* running child returns when the child has exited, with whatever code the
\* child chose.  The wait may fail.
WaitForSingleObject(O, hnd, hang) ==
  {[O |-> O, code |-> "WAIT_FAILED"]}
  \cup
  (IF hnd \in DOMAIN O /\ O[hnd].state = "exited"
     THEN {[O |-> O, code |-> "WAIT_OBJECT_0"]}
   ELSE IF hnd \in DOMAIN O /\ O[hnd].state = "running"
     THEN IF hang
            THEN {[O |-> [O EXCEPT ![hnd] = [state |-> "exited", code |-> c]],
                   code |-> "WAIT_OBJECT_0"] : c \in ExitCodes}
            ELSE {[O |-> O, code |-> "WAIT_TIMEOUT"]}
   ELSE {})

\* GetExitCodeProcess (hnd, &code): the set of results, ok = FALSE is the
\* call returning 0.  A running process reports STILL_ACTIVE (259).
GetExitCodeProcess(O, hnd) ==
  {[ok |-> FALSE, code |-> 0]}
  \cup
  (IF hnd \in DOMAIN O /\ O[hnd].state = "exited"
     THEN {[ok |-> TRUE, code |-> O[hnd].code]}
   ELSE IF hnd \in DOMAIN O /\ O[hnd].state = "running"
     THEN {[ok |-> TRUE, code |-> 259]}
   ELSE {})

\* ------------------------------------------------------- wait / terminate
\* Variant: a successful termination marks the handle terminated.
process_kill_marks(P, O, h, exitcode) ==
  { Outcome(IF t.ok THEN [P EXCEPT ![h].terminated = TRUE] ELSE P,
            t.O, IF t.ok THEN "SYSERROR" ELSE "OK",
            <<PRE, Call("TerminateProcess", P[h].hProcess), POST>>, <<>>)
    : t \in TerminateProcess(O, P[h].hProcess, exitcode) }

process_kill(P, O, h, exitcode) ==
  { Outcome(P, t.O, IF t.ok THEN "SYSERROR" ELSE "OK",
            <<PRE, Call("TerminateProcess", P[h].hProcess), POST>>, <<>>)
    : t \in TerminateProcess(O, P[h].hProcess, exitcode) }

gnupg_process_terminate(P, O, h) == process_kill(P, O, h, 1)

\* What gnupg_process_wait calls: the wait between the two hooks, and
\* log_error when the wait failed.
WaitCalls(hnd, code) ==
  <<PRE, Call("WaitForSingleObject", hnd), POST>>
  \o (IF code = "WAIT_FAILED"
        THEN <<Call("log_error: waiting for process to terminate failed", 0)>>
        ELSE <<>>)

\* Variant: the finished branch does not set the flag.
gnupg_process_wait_forgets(P, O, h, hang) ==
  IF P[h].hProcess = INVALID_HANDLE_VALUE
    THEN {Outcome(P, O, "OK", <<>>, <<>>)}
    ELSE { Outcome(P, w.O,
                   CASE w.code = "WAIT_TIMEOUT" -> "GPG_ERR_TIMEOUT"
                     [] w.code = "WAIT_FAILED" -> "GPG_ERR_GENERAL"
                     [] w.code = "WAIT_OBJECT_0" -> "OK",
                   WaitCalls(P[h].hProcess, w.code), <<>>)
           : w \in WaitForSingleObject(O, P[h].hProcess, hang) }

\* Variant: the flag is assigned from the wait's code on every branch.
gnupg_process_wait_assigns(P, O, h, hang) ==
  IF P[h].hProcess = INVALID_HANDLE_VALUE
    THEN {Outcome(P, O, "OK", <<>>, <<>>)}
    ELSE { Outcome([P EXCEPT ![h].terminated = (w.code = "WAIT_OBJECT_0")],
                   w.O,
                   CASE w.code = "WAIT_TIMEOUT" -> "GPG_ERR_TIMEOUT"
                     [] w.code = "WAIT_FAILED" -> "GPG_ERR_GENERAL"
                     [] w.code = "WAIT_OBJECT_0" -> "OK",
                   WaitCalls(P[h].hProcess, w.code), <<>>)
           : w \in WaitForSingleObject(O, P[h].hProcess, hang) }

\* Variant: a wait that timed out is reported as the generic failure.
gnupg_process_wait_untimed(P, O, h, hang) ==
  IF P[h].hProcess = INVALID_HANDLE_VALUE
    THEN {Outcome(P, O, "OK", <<>>, <<>>)}
    ELSE { Outcome(IF w.code = "WAIT_OBJECT_0"
                     THEN [P EXCEPT ![h].terminated = TRUE] ELSE P,
                   w.O,
                   CASE w.code = "WAIT_TIMEOUT" -> "GPG_ERR_GENERAL"
                     [] w.code = "WAIT_FAILED" -> "GPG_ERR_GENERAL"
                     [] w.code = "WAIT_OBJECT_0" -> "OK",
                   WaitCalls(P[h].hProcess, w.code), <<>>)
           : w \in WaitForSingleObject(O, P[h].hProcess, hang) }

gnupg_process_wait(P, O, h, hang) ==
  IF P[h].hProcess = INVALID_HANDLE_VALUE
    THEN {Outcome(P, O, "OK", <<>>, <<>>)}
    ELSE { Outcome(IF w.code = "WAIT_OBJECT_0"
                     THEN [P EXCEPT ![h].terminated = TRUE] ELSE P,
                   w.O,
                   CASE w.code = "WAIT_TIMEOUT" -> "GPG_ERR_TIMEOUT"
                     [] w.code = "WAIT_FAILED" -> "GPG_ERR_GENERAL"
                     [] w.code = "WAIT_OBJECT_0" -> "OK",
                   WaitCalls(P[h].hProcess, w.code), <<>>)
           : w \in WaitForSingleObject(O, P[h].hProcess, hang) }

\* xfree (process): the record is gone; the model stops tracking the OS
\* process of a record that no longer exists.
xfree(o, h) ==
  Outcome([o.P EXCEPT ![h] = FreedProcess], o.O, "OK",
          Append(o.tr, Call("xfree", h)), <<>>)

\* Variant: the termination and the wait are made for a handle not yet
\* marked terminated.
gnupg_process_release_running(P, O, h) ==
  IF ~P[h].terminated
    THEN UNION { { xfree(Outcome(w.P, w.O, "OK", k.tr \o w.tr, <<>>), h)
                   : w \in gnupg_process_wait(k.P, k.O, h, TRUE) }
                 : k \in gnupg_process_terminate(P, O, h) }
    ELSE { xfree(Outcome(P, O, "OK", <<>>, <<>>), h) }

gnupg_process_release(P, O, h) ==
  IF P[h].terminated
    THEN UNION { { xfree(Outcome(w.P, w.O, "OK", k.tr \o w.tr, <<>>), h)
                   : w \in gnupg_process_wait(k.P, k.O, h, TRUE) }
                 : k \in gnupg_process_terminate(P, O, h) }
    ELSE { xfree(Outcome(P, O, "OK", <<>>, <<>>), h) }

\* ------------------------------------------------------------- hand-off
\* _open_osfhandle (handle, mode): a C runtime descriptor for the handle,
\* or -1.  es_sysopen (&syshd, mode): a stream object for the handle, or
\* NULL (0).  Descriptors and streams are values of their own, not handles.
FdOf(v) == 1000 + v
StreamOf(v) == 2000 + v
open_osfhandle(v) == IF v = INVALID_HANDLE_VALUE THEN {-1} ELSE {FdOf(v), -1}
es_sysopen(v) == IF v = INVALID_HANDLE_VALUE THEN {0, StreamOf(v)} ELSE {StreamOf(v), 0}

\* The kernel handle a delivered value stands for.
HandleBehind(kind, v) ==
  CASE kind = "handle" -> v
    [] kind = "fd" -> IF v = -1 THEN INVALID_HANDLE_VALUE ELSE v - 1000
    [] kind = "stream" -> IF v = 0 THEN INVALID_HANDLE_VALUE ELSE v - 2000

\* One hand-off call: for every non-NULL out pointer (want) the field is
\* converted, stored through the pointer and reset to the sentinel.  conv
\* picks, per stream, one result of the conversion.
HandOff(P, O, h, want, conv) ==
  Outcome([P EXCEPT ![h] = [f \in DOMAIN P[h] |->
                               IF f \in want THEN INVALID_HANDLE_VALUE ELSE P[h][f]]],
          O, "OK", <<>>,
          [s \in Streams |-> IF s \in want THEN [asked |-> TRUE, v |-> conv[s]]
                             ELSE [asked |-> FALSE, v |-> 0]])

gnupg_process_get_fds(P, O, h, want) ==
  { HandOff(P, O, h, want, conv)
    : conv \in {c \in [Streams -> {-1} \cup {FdOf(P[h][s]) : s \in Streams}] :
                  \A s \in Streams : c[s] \in open_osfhandle(P[h][s])} }

gnupg_process_get_streams(P, O, h, want) ==
  { HandOff(P, O, h, want, conv)
    : conv \in {c \in [Streams -> {0} \cup {StreamOf(P[h][s]) : s \in Streams}] :
                  \A s \in Streams : c[s] \in es_sysopen(P[h][s])} }

\* Variant: the fields are copied out and not reset.
vctl_GET_HANDLES_keeps(P, O, h, want) ==
  { [HandOff(P, O, h, want, [s \in Streams |-> P[h][s]]) EXCEPT !.P = P] }

vctl_GET_HANDLES(P, O, h, want) ==
  { HandOff(P, O, h, want, [s \in Streams |-> P[h][s]]) }

\* -------------------------------------------------------- control requests
vctl_GET_ID(P, O, h, null) ==
  IF null THEN {Outcome(P, O, "GPG_ERR_INV_VALUE", <<>>, <<>>)}
  ELSE {Outcome(P, O, "OK", <<>>, <<P[h].hProcess>>)}

\* Variant: the terminated flag is not consulted.
vctl_GET_EXIT_ID_unchecked(P, O, h) ==
  IF P[h].hProcess = INVALID_HANDLE_VALUE
    THEN {Outcome(P, O, "OK", <<>>, <<-1>>)}
  ELSE { IF g.ok
           THEN Outcome(P, O, "OK", <<Call("GetExitCodeProcess", P[h].hProcess)>>,
                        <<IntOfDword(g.code)>>)
           ELSE Outcome(P, O, "SYSERROR",
                        <<Call("GetExitCodeProcess", P[h].hProcess)>>, <<-1>>)
         : g \in GetExitCodeProcess(O, P[h].hProcess) }

vctl_GET_EXIT_ID(P, O, h) ==
  IF ~P[h].terminated
    THEN {Outcome(P, O, "GPG_ERR_UNFINISHED", <<>>, <<-1>>)}
  ELSE IF P[h].hProcess = INVALID_HANDLE_VALUE
    THEN {Outcome(P, O, "OK", <<>>, <<-1>>)}
  ELSE { IF g.ok
           THEN Outcome(P, O, "OK", <<Call("GetExitCodeProcess", P[h].hProcess)>>,
                        <<IntOfDword(g.code)>>)
           ELSE Outcome(P, O, "SYSERROR",
                        <<Call("GetExitCodeProcess", P[h].hProcess)>>, <<-1>>)
         : g \in GetExitCodeProcess(O, P[h].hProcess) }

\* Variant: the field and the caller's variable are exchanged, the field
\* getting the handle back when it held the sentinel.
vctl_GET_P_HANDLE_swaps(P, O, h, null) ==
  IF null THEN {Outcome(P, O, "GPG_ERR_INV_VALUE", <<>>, <<>>)}
  ELSE {Outcome([P EXCEPT ![h].hProcess = IF @ = INVALID_HANDLE_VALUE
                                            THEN h ELSE INVALID_HANDLE_VALUE],
                O, "OK", <<>>, <<P[h].hProcess>>)}

vctl_GET_P_HANDLE(P, O, h, null) ==
  IF null THEN {Outcome(P, O, "GPG_ERR_INV_VALUE", <<>>, <<>>)}
  ELSE {Outcome([P EXCEPT ![h].hProcess = INVALID_HANDLE_VALUE], O, "OK", <<>>,
                <<P[h].hProcess>>)}

vctl_GET_EXIT_CODE(P, O, h) ==
  IF ~P[h].terminated
    THEN {Outcome(P, O, "GPG_ERR_UNFINISHED", <<>>, <<>>)}
  ELSE IF P[h].hProcess = INVALID_HANDLE_VALUE
    THEN {Outcome(P, O, "OK", <<>>, <<DwordMax>>)}
  ELSE { IF g.ok
           THEN Outcome(P, O, "OK", <<Call("GetExitCodeProcess", P[h].hProcess)>>,
                        <<g.code>>)
           ELSE Outcome(P, O, "SYSERROR",
                        <<Call("GetExitCodeProcess", P[h].hProcess)>>, <<>>)
         : g \in GetExitCodeProcess(O, P[h].hProcess) }

vctl_KILL_WITH_EC(P, O, h, exitcode) ==
  IF P[h].terminated THEN {Outcome(P, O, "OK", <<>>, <<>>)}
  ELSE IF P[h].hProcess = INVALID_HANDLE_VALUE THEN {Outcome(P, O, "OK", <<>>, <<>>)}
  ELSE process_kill(P, O, h, exitcode)

Requests ==
  {"NOP", "GET_ID", "GET_EXIT_ID", "GET_P_HANDLE", "GET_HANDLES",
   "GET_EXIT_CODE", "KILL_WITH_EC", "UNKNOWN"}

\* arg stands for the variadic arguments: null (the out pointer is NULL),
\* want (the non-NULL pointers of GET_HANDLES), exitcode.
process_vctl(P, O, h, request, arg) ==
  CASE request = "NOP" -> {Outcome(P, O, "OK", <<>>, <<>>)}
    [] request = "GET_ID" -> vctl_GET_ID(P, O, h, arg.null)
    [] request = "GET_EXIT_ID" -> vctl_GET_EXIT_ID(P, O, h)
    [] request = "GET_P_HANDLE" -> vctl_GET_P_HANDLE(P, O, h, arg.null)
    [] request = "GET_HANDLES" -> vctl_GET_HANDLES(P, O, h, arg.want)
    [] request = "GET_EXIT_CODE" -> vctl_GET_EXIT_CODE(P, O, h)
    [] request = "KILL_WITH_EC" -> vctl_KILL_WITH_EC(P, O, h, arg.exitcode)
    [] OTHER -> {Outcome(P, O, "GPG_ERR_UNKNOWN_COMMAND", <<>>, <<>>)}

gnupg_process_ctl(P, O, h, request, arg) == process_vctl(P, O, h, request, arg)

\* --------------------------------------------------------------- wait list
RECURSIVE WaitListFrom(_, _, _, _, _, _)
WaitListFrom(P, O, list, i, hang, tr) ==
  IF i > Len(list) THEN {Outcome(P, O, "OK", tr, <<>>)}
  ELSE IF P[list[i]].terminated THEN WaitListFrom(P, O, list, i + 1, hang, tr)
  ELSE UNION { IF w.ec # "OK"
                 THEN {Outcome(w.P, w.O, w.ec, tr \o w.tr, <<>>)}
                 ELSE WaitListFrom(w.P, w.O, list, i + 1, hang, tr \o w.tr)
               : w \in gnupg_process_wait(P, O, list[i], hang) }

\* Variant: the loop does not stop at a failed wait.
RECURSIVE WaitListNoBreak(_, _, _, _, _, _, _)
WaitListNoBreak(P, O, list, i, hang, tr, ec) ==
  IF i > Len(list) THEN {Outcome(P, O, ec, tr, <<>>)}
  ELSE IF P[list[i]].terminated THEN WaitListNoBreak(P, O, list, i + 1, hang, tr, ec)
  ELSE UNION { WaitListNoBreak(w.P, w.O, list, i + 1, hang, tr \o w.tr, w.ec)
               : w \in gnupg_process_wait(P, O, list[i], hang) }

gnupg_process_wait_list_nobreak(P, O, list, hang) ==
  WaitListNoBreak(P, O, list, 1, hang, <<>>, "OK")

gnupg_process_wait_list(P, O, list, hang) == WaitListFrom(P, O, list, 1, hang, <<>>)

\* The caller's tally of live kernel handles it was given, per stream
\* (kept to at most 2: twice is once too many).
Counted(d, kind, got) ==
  [s \in Streams |->
     IF got[s].asked /\ IsPipeEnd(HandleBehind(kind, got[s].v)) /\ d[s] < 2
       THEN d[s] + 1 ELSE d[s]]

\* ------------------------------------------------------------ the pid API
\* A pid of this API is the process handle itself (handle_to_pid), and
\* (pid_t)(-1) is the sentinel.  The error source added by gpg_err_make is
\* not modelled: ec is the error code.
handle_to_pid(hnd) == hnd
pid_to_handle(pid) == pid

\* One entry of the caller's r_exitcodes array: w is FALSE while the call
\* has not stored into it.
Unwritten == [w |-> FALSE, v |-> 0]
Stored(v) == [w |-> TRUE, v |-> v]

\* WaitForMultipleObjects (count, procs, TRUE, hang ? INFINITE : 0).  It
\* fails for an empty array, for a value that is no open process handle and
\* for an array holding a handle twice; it may fail otherwise too.  A
\* blocking wait returns when every process has exited.
WaitForMultipleObjects(O, procs, hang) ==
  LET n == Len(procs)
      valid == /\ n > 0
               /\ \A i \in 1..n : procs[i] \in DOMAIN O
                                  /\ O[procs[i]].state \in {"running", "exited"}
               /\ \A i, j \in 1..n : procs[i] = procs[j] => i = j
      running == {procs[i] : i \in {k \in 1..n : O[procs[k]].state = "running"}}
  IN {[O |-> O, code |-> "WAIT_FAILED"]}
     \cup
     (IF ~valid THEN {}
      ELSE IF running = {} THEN {[O |-> O, code |-> "WAIT_OBJECT_0"]}
      ELSE IF ~hang THEN {[O |-> O, code |-> "WAIT_TIMEOUT"]}
      ELSE {[O |-> [p \in DOMAIN O |->
                      IF p \in running THEN [state |-> "exited", code |-> c[p]]
                      ELSE O[p]],
             code |-> "WAIT_OBJECT_0"] : c \in [running -> PidExitCodes]})

\* Variant: a process that exited with 0 sets the result back to success.
ExitCodeStep_resets(acc, want, i, hnd, g) ==
  IF ~g.ok
    THEN [acc EXCEPT !.ec = "GPG_ERR_GENERAL",
                     !.tr = @ \o <<Call("GetExitCodeProcess", hnd),
                                   Call("log_error: getting exit code", i)>>]
  ELSE IF g.code # 0
    THEN [acc EXCEPT !.ec = "GPG_ERR_GENERAL",
                     !.tr = @ \o (IF want
                                    THEN <<Call("GetExitCodeProcess", hnd)>>
                                    ELSE <<Call("GetExitCodeProcess", hnd),
                                           Call("log_error: exit status", i)>>),
                     !.codes = IF want
                                 THEN [@ EXCEPT ![i] = Stored(IntOfDword(g.code))]
                                 ELSE @]
  ELSE [acc EXCEPT !.ec = "OK",
                   !.tr = @ \o <<Call("GetExitCodeProcess", hnd)>>,
                   !.codes = IF want THEN [@ EXCEPT ![i] = Stored(0)] ELSE @]

\* One round of the loop over the finished processes: g is what
\* GetExitCodeProcess gave for procs[i], acc the result so far.
ExitCodeStep(acc, want, i, hnd, g) ==
  IF ~g.ok
    THEN [acc EXCEPT !.ec = "GPG_ERR_GENERAL",
                     !.tr = @ \o <<Call("GetExitCodeProcess", hnd),
                                   Call("log_error: getting exit code", i)>>]
  ELSE IF g.code # 0
    THEN [acc EXCEPT !.ec = "GPG_ERR_GENERAL",
                     !.tr = @ \o (IF want
                                    THEN <<Call("GetExitCodeProcess", hnd)>>
                                    ELSE <<Call("GetExitCodeProcess", hnd),
                                           Call("log_error: exit status", i)>>),
                     !.codes = IF want
                                 THEN [@ EXCEPT ![i] = Stored(IntOfDword(g.code))]
                                 ELSE @]
  ELSE [acc EXCEPT !.tr = @ \o <<Call("GetExitCodeProcess", hnd)>>,
                   !.codes = IF want THEN [@ EXCEPT ![i] = Stored(0)] ELSE @]

RECURSIVE ExitCodeLoop(_, _, _, _, _)
ExitCodeLoop(O, procs, want, i, acc) ==
  IF i > Len(procs) THEN {acc}
  ELSE UNION { ExitCodeLoop(O, procs, want, i + 1,
                            ExitCodeStep(acc, want, i, procs[i], g))
               : g \in GetExitCodeProcess(O, procs[i]) }

\* gnupg_wait_processes (pgmnames, pids, count, hang, r_exitcodes); want is
\* TRUE when r_exitcodes is not NULL.  The result: the process table, the
\* error code, the primitives called, the wait's code and the array.
\* The first loop stops at the first sentinel, at index first.
RejectPids(O, pids, want, first) ==
  {[O |-> O, ec |-> "GPG_ERR_INV_VALUE", tr |-> <<>>, wcode |-> "none",
    codes |-> [i \in 1..Len(pids) |-> IF want /\ i <= first THEN Stored(-1)
                                       ELSE Unwritten]]}

WaitAndCollect(O, pids, hang, want) ==
  LET n == Len(pids)
      procs == [i \in 1..n |-> pid_to_handle(pids[i])]
      minus == [i \in 1..n |-> IF want THEN Stored(-1) ELSE Unwritten]
  IN UNION {
       LET acc == [O |-> w.O, ec |-> "OK",
                   tr |-> <<Call("WaitForMultipleObjects", n)>>,
                   wcode |-> w.code, codes |-> minus]
       IN CASE w.code = "WAIT_TIMEOUT" -> {[acc EXCEPT !.ec = "GPG_ERR_TIMEOUT"]}
            [] w.code = "WAIT_FAILED" ->
                 {[acc EXCEPT !.ec = "GPG_ERR_GENERAL",
                              !.tr = @ \o <<Call("log_error: waiting", 0)>>]}
            [] w.code = "WAIT_OBJECT_0" -> ExitCodeLoop(w.O, procs, want, 1, acc)
       : w \in WaitForMultipleObjects(O, procs, hang) }

\* Variant: only the first pid is compared with the sentinel.
gnupg_wait_processes_first_only(O, pids, hang, want) ==
  IF Len(pids) > 0 /\ pids[1] = -1
    THEN RejectPids(O, pids, want, 1)
    ELSE WaitAndCollect(O, pids, hang, want)

gnupg_wait_processes(O, pids, hang, want) ==
  LET bad == {i \in 1..Len(pids) : pids[i] = -1}
  IN IF bad # {}
       THEN RejectPids(O, pids, want, CHOOSE i \in bad : \A j \in bad : i <= j)
       ELSE WaitAndCollect(O, pids, hang, want)

gnupg_wait_process(O, pid, hang, want) == gnupg_wait_processes(O, <<pid>>, hang, want)

\* gnupg_kill_process (pid): an invalid pid is ignored.
gnupg_kill_process(O, pid) ==
  IF pid # INVALID_HANDLE_VALUE
    THEN {[O |-> t.O, ec |-> "OK", tr |-> <<Call("TerminateProcess", pid)>>,
           wcode |-> "none", codes |-> <<>>] : t \in TerminateProcess(O, pid, 1)}
    ELSE {[O |-> O, ec |-> "OK", tr |-> <<>>, wcode |-> "none", codes |-> <<>>]}

\* ------------------------------------------------------------ launch model
\* Kernel handle values a launch for slot (or pid) i deals with.
ChildEnd(i, s) == 100 + PipeEnd(i, s)      \* the pipe end meant for the child
NullHandle(i, s) == 200 + PipeEnd(i, s)    \* a handle on the null device
StdHandle(s) == 300 + StreamNo(s)          \* the parent's own standard handle
ThreadHandle(i) == 400 + i                 \* pi.hThread
ExtraHandles == <<500>>                    \* a handle list a callback supplies
CallerHandle(s) == 600 + StreamNo(s)       \* _get_osfhandle of a caller's fd
ParentHandles ==
  {StdHandle(s) : s \in Streams} \cup {CallerHandle(s) : s \in Streams}
  \cup {ExtraHandles[k] : k \in 1..Len(ExtraHandles)}

NullFlag(s) == CASE s = "hd_in" -> "STDIN_NULL" [] s = "hd_out" -> "STDOUT_NULL"
                 [] s = "hd_err" -> "STDERR_NULL"
KeepFlag(s) == CASE s = "hd_in" -> "KEEP_STDIN" [] s = "hd_out" -> "KEEP_STDOUT"
                 [] s = "hd_err" -> "KEEP_STDERR"
StreamOrder == <<"hd_in", "hd_out", "hd_err">>

\* GNUPG_PROCESS_STDFDS_SETTING: the options that say how a standard stream
\* is connected.
GNUPG_PROCESS_STDFDS_SETTING ==
  {PipeFlag(s) : s \in Streams} \cup {NullFlag(s) : s \in Streams}
  \cup {"STDINOUT_SOCKETPAIR"}

NoPair == [child |-> INVALID_HANDLE_VALUE, kept |-> INVALID_HANDLE_VALUE]
NoHandles == [s \in Streams |-> INVALID_HANDLE_VALUE]
NoStreams == [s \in Streams |-> 0]     \* estream_t NULL

\* The job the parent process runs in, as far as a launch asks about it:
\* whether there is one and which of the two breakaway limits it sets.
JobLimits == {"JOB_OBJECT_LIMIT_BREAKAWAY_OK", "JOB_OBJECT_LIMIT_SILENT_BREAKAWAY_OK"}
NoJob == [in_job |-> FALSE, limits |-> {}]
Jobs == {NoJob} \cup {[in_job |-> TRUE, limits |-> l] : l \in SUBSET JobLimits}

\* struct spawn_cb_arg as the launcher initialises it.
NoSca == [hd |-> NoHandles, inherit_hds |-> <<>>, ask_inherit |-> FALSE,
          allow_foreground_window |-> FALSE]

\* The arguments of CreateProcessW, once it has been called.
NoCreate == [called |-> FALSE, ok |-> FALSE, inherit |-> FALSE, cr_flags |-> {},
             si |-> NoHandles, usestd |-> FALSE, list |-> <<>>, listed |-> FALSE]

\* The locals of one launch call and what the call has done so far.
\*   hd        hd_in / hd_out / hd_err (inpipe / outpipe / errpipe): per
\*             stream the end for the child and the end the parent keeps
\*   nullhd    nullhd[] (stdhd[]) of the pid launchers
\*   fp        the estream opened on the kept end (0: none)
\*   open      the kernel handles live in the parent
\*   made      the kernel handles this call created
\*   inheritable  those of them marked inheritable
\*   p, pset   the process record; pset: its fields beyond pgmname and
\*             flags have been assigned
\*   want      the streams the caller asks a stream object for (r_infp,
\*             r_outfp, r_errfp not NULL), or gives a descriptor for
\*   r_process the caller's *r_process: "unset", "NULL" or "process"
\*   out       *pid and *r_infp, *r_outfp, *r_errfp
\*   child     the OS process this call created
\*   job       the job the parent runs in while the call is made
\*   filedes, pipefp  filedes[] and *r_fp of the pipe factory
Frame(op, i, flags, cb, want, r_null) ==
  [op |-> op, id |-> i, flags |-> flags, cb |-> cb, want |-> want,
   r_null |-> r_null, done |-> FALSE, ec |-> "OK", tr |-> <<>>,
   hd |-> [s \in Streams |-> NoPair], nullhd |-> NoHandles, fp |-> NoStreams,
   sca |-> NoSca, cp |-> NoCreate,
   open |-> ParentHandles, inheritable |-> {StdHandle(s) : s \in Streams},
   made |-> {},
   p |-> NoProcess, pset |-> FALSE, r_process |-> "unset",
   child |-> NoOsProcess, resumed |-> FALSE, job |-> NoJob,
   filedes |-> <<-1, -1>>, pipefp |-> 0,
   out |-> [pid |-> INVALID_HANDLE_VALUE, fp |-> NoStreams]]

Note(f, name, arg) == [f EXCEPT !.tr = Append(@, Call(name, arg))]
Return(f, ec) == [f EXCEPT !.done = TRUE, !.ec = ec]
Then(S, F(_)) == UNION {IF f.done THEN {f} ELSE F(f) : f \in S}

CloseHandle(f, v) ==
  [f EXCEPT !.tr = Append(@, Call("CloseHandle", v)), !.open = @ \ {v},
            !.inheritable = @ \ {v}]

RECURSIVE CloseEach(_, _)
CloseEach(f, hs) ==
  IF hs = <<>> THEN f ELSE CloseEach(CloseHandle(f, Head(hs)), Tail(hs))

\* if (x != INVALID_HANDLE_VALUE) CloseHandle (x), for each x of hs in order.
RECURSIVE CloseValid(_, _)
CloseValid(f, hs) ==
  IF hs = <<>> THEN f
  ELSE CloseValid(IF Head(hs) # INVALID_HANDLE_VALUE THEN CloseHandle(f, Head(hs)) ELSE f,
                  Tail(hs))

\* Variant: each bit of flags is applied to the other end.
create_inheritable_pipe_swapped(f, r, w, inherit) ==
  LET made == [Note(f, "CreatePipe", r) EXCEPT !.open = @ \cup {r, w},
                                               !.made = @ \cup {r, w},
                                               !.inheritable = @ \cup {r, w}]
      fail(g) == [ok |-> FALSE, f |-> CloseEach(Note(g, "log_error: SetHandleInformation", 0), <<r, w>>)]
      clear(g, v) == [Note(g, "SetHandleInformation", v) EXCEPT !.inheritable = @ \ {v}]
      afterR == IF "WRITE" \in inherit
                  THEN {[ok |-> TRUE, f |-> made]}
                  ELSE {[ok |-> TRUE, f |-> clear(made, r)],
                        fail(Note(made, "SetHandleInformation", r))}
      afterW(x) == IF ~x.ok THEN {x}
                   ELSE IF "READ" \in inherit
                     THEN {x}
                     ELSE {[ok |-> TRUE, f |-> clear(x.f, w)],
                           fail(Note(x.f, "SetHandleInformation", w))}
  IN {[ok |-> FALSE, f |-> Note(f, "CreatePipe fails", r)]}
     \cup UNION {afterW(x) : x \in afterR}

\* create_inheritable_pipe (filedes, flags): r and w are the handles
\* CreatePipe would return, inherit the ends named by flags.  Every result
\* carries the frame after the call and whether the call returned 0.
create_inheritable_pipe(f, r, w, inherit) ==
  LET made == [Note(f, "CreatePipe", r) EXCEPT !.open = @ \cup {r, w},
                                               !.made = @ \cup {r, w},
                                               !.inheritable = @ \cup {r, w}]
      fail(g) == [ok |-> FALSE, f |-> CloseEach(Note(g, "log_error: SetHandleInformation", 0), <<r, w>>)]
      clear(g, v) == [Note(g, "SetHandleInformation", v) EXCEPT !.inheritable = @ \ {v}]
      afterR == IF "READ" \in inherit
                  THEN {[ok |-> TRUE, f |-> made]}
                  ELSE {[ok |-> TRUE, f |-> clear(made, r)],
                        fail(Note(made, "SetHandleInformation", r))}
      afterW(x) == IF ~x.ok THEN {x}
                   ELSE IF "WRITE" \in inherit
                     THEN {x}
                     ELSE {[ok |-> TRUE, f |-> clear(x.f, w)],
                           fail(Note(x.f, "SetHandleInformation", w))}
  IN {[ok |-> FALSE, f |-> Note(f, "CreatePipe fails", r)]}
     \cup UNION {afterW(x) : x \in afterR}

\* w32_open_null (for_write): the handle CreateFileW returns, nul being the
\* handle of a successful open; the open may fail and then yields the
\* sentinel.
w32_open_null(f, nul) ==
  {[hfile |-> nul,
    f |-> [Note(f, "CreateFileW nul", nul) EXCEPT !.open = @ \cup {nul},
                                                !.made = @ \cup {nul}]],
   [hfile |-> INVALID_HANDLE_VALUE,
    f |-> Note(Note(f, "CreateFileW nul", nul), "log_debug: can't open nul", 0)]}

\* build_w32_commandline as far as a launch depends on it: it fails only
\* when the buffer cannot be allocated.
CmdlineBuilt(f) ==
  {[ok |-> TRUE, f |-> Note(f, "build_w32_commandline", 0)],
   [ok |-> FALSE, f |-> Note(f, "build_w32_commandline", 0)]}

\* xfree (process) inside a launch.
FreeProcess(f) == [Note(f, "xfree", f.id) EXCEPT !.p = FreedProcess]

\* utf8_to_wchar of the program name and the command line followed by
\* CreateProcessW with the given arguments.  ret = FALSE is the call (or a
\* conversion before it) failing; on success the process and its primary
\* thread exist and the parent holds a handle on each.
CreateProcess(f, inherit, cr_flags, si, usestd, list, listed) ==
  LET args == [called |-> TRUE, ok |-> FALSE, inherit |-> inherit,
               cr_flags |-> cr_flags, si |-> si, usestd |-> usestd,
               list |-> list, listed |-> listed]
      g == [Note(f, "CreateProcessW", f.id) EXCEPT !.cp = args]
  IN {[ret |-> FALSE, f |-> Note(Note(f, "utf8_to_wchar", 0), "log_error: CreateProcess failed (utf8_to_wchar)", 0)],
      [ret |-> FALSE, f |-> Note(g, "log_error: CreateProcess failed", 0)],
      [ret |-> TRUE,
       f |-> [g EXCEPT !.cp.ok = TRUE,
                       !.open = @ \cup {f.id, ThreadHandle(f.id)},
                       !.made = @ \cup {f.id, ThreadHandle(f.id)},
                       !.child = [state |-> "running", code |-> 0]]]}

\* gnupg_access (pgmname, X_OK); the trace keeps whether it returned 0 or
\* an error code (1).
gnupg_access(f) ==
  {[ec |-> "OK", f |-> Note(f, "gnupg_access", 0)],
   [ec |-> "ACCESS_ERROR", f |-> Note(f, "gnupg_access", 1)]}

\* (*spawn_cb) (&sca): what a caller's callback may do to the argument.
Callbacks == {"none", "extra", "unset_out", "foreground"}
spawn_cb(f) ==
  CASE f.cb = "none" -> f
    [] f.cb = "extra" -> [Note(f, "spawn_cb", 0) EXCEPT !.sca.inherit_hds = ExtraHandles]
    [] f.cb = "unset_out" ->
         [Note(f, "spawn_cb", 0) EXCEPT !.sca.hd["hd_out"] = INVALID_HANDLE_VALUE]
    [] f.cb = "foreground" ->
         [Note(f, "spawn_cb", 0) EXCEPT !.sca.allow_foreground_window = TRUE]

\* Variant: the result of the access check is not looked at.
spawn_detached_unchecked(f0) ==
  LET afterAccess(a) ==
        IF FALSE
          THEN {Return(FreeProcess(a.f), a.ec)}
          ELSE
            LET f == spawn_cb([a.f EXCEPT !.sca = NoSca])
                cr_flags == {"CREATE_DEFAULT_ERROR_MODE", "CREATE_NEW_PROCESS_GROUP",
                             "DETACHED_PROCESS"}
                done(c) ==
                  IF ~c.ret
                    THEN Return(c.f, "GPG_ERR_GENERAL")
                    ELSE LET g == CloseEach(c.f, <<ThreadHandle(f.id), f.id>>)
                         IN Return([g EXCEPT
                                      !.p.hProcess = INVALID_HANDLE_VALUE,
                                      !.p.hd_in = INVALID_HANDLE_VALUE,
                                      !.p.hd_out = INVALID_HANDLE_VALUE,
                                      !.p.hd_err = INVALID_HANDLE_VALUE,
                                      !.p.exitcode = -1,
                                      !.p.terminated = TRUE,
                                      !.pset = TRUE,
                                      !.child = GoneOsProcess], "OK")
            IN {done(c) : c \in CreateProcess(f, f.sca.ask_inherit, cr_flags,
                                              NoHandles, FALSE, <<>>, FALSE)}
  IN UNION {afterAccess(a) : a \in gnupg_access(f0)}

\* spawn_detached: the DETACHED launch of gnupg_process_spawn.
spawn_detached(f0) ==
  LET afterAccess(a) ==
        IF a.ec # "OK"
          THEN {Return(FreeProcess(a.f), a.ec)}
          ELSE
            LET f == spawn_cb([a.f EXCEPT !.sca = NoSca])
                cr_flags == {"CREATE_DEFAULT_ERROR_MODE", "CREATE_NEW_PROCESS_GROUP",
                             "DETACHED_PROCESS"}
                done(c) ==
                  IF ~c.ret
                    THEN Return(c.f, "GPG_ERR_GENERAL")
                    ELSE LET g == CloseEach(c.f, <<ThreadHandle(f.id), f.id>>)
                         IN Return([g EXCEPT
                                      !.p.hProcess = INVALID_HANDLE_VALUE,
                                      !.p.hd_in = INVALID_HANDLE_VALUE,
                                      !.p.hd_out = INVALID_HANDLE_VALUE,
                                      !.p.hd_err = INVALID_HANDLE_VALUE,
                                      !.p.exitcode = -1,
                                      !.p.terminated = TRUE,
                                      !.pset = TRUE,
                                      !.child = GoneOsProcess], "OK")
            IN {done(c) : c \in CreateProcess(f, f.sca.ask_inherit, cr_flags,
                                              NoHandles, FALSE, <<>>, FALSE)}
  IN UNION {afterAccess(a) : a \in gnupg_access(f0)}

\* hd_x[0], hd_x[1] of a stream: for stdin the child reads from [0], for
\* stdout and stderr the child writes to [1].
Pair(f, s) ==
  IF s = "hd_in" THEN <<f.hd[s].child, f.hd[s].kept>>
                 ELSE <<f.hd[s].kept, f.hd[s].child>>

\* Variant: the failure paths close the child's ends only.
RECURSIVE FlagCloseList_child_ends(_, _)
FlagCloseList_child_ends(f, ss) ==
  IF ss = <<>> THEN <<>>
  ELSE (IF PipeFlag(Head(ss)) \in f.flags \/ NullFlag(Head(ss)) \in f.flags
          THEN <<f.hd[Head(ss)].child>> ELSE <<>>)
       \o FlagCloseList_child_ends(f, Tail(ss))

\* The handles the failure paths of gnupg_process_spawn close, chosen by
\* the flags: both ends of a pipe, the child's end of a null redirection.
RECURSIVE FlagCloseList(_, _)
FlagCloseList(f, ss) ==
  IF ss = <<>> THEN <<>>
  ELSE LET s == Head(ss)
           both == PipeFlag(s) \in f.flags
           one == both \/ NullFlag(s) \in f.flags
           mine == IF s = "hd_in"
                     THEN (IF one THEN <<f.hd[s].child>> ELSE <<>>)
                          \o (IF both THEN <<f.hd[s].kept>> ELSE <<>>)
                     ELSE (IF both THEN <<f.hd[s].kept>> ELSE <<>>)
                          \o (IF one THEN <<f.hd[s].child>> ELSE <<>>)
       IN mine \o FlagCloseList(f, Tail(ss))

\* The streams set up before stream s.
Earlier(s) == CASE s = "hd_in" -> <<>> [] s = "hd_out" -> <<"hd_in">>
                [] s = "hd_err" -> <<"hd_in", "hd_out">>

RECURSIVE Pairs(_, _)
Pairs(f, ss) == IF ss = <<>> THEN <<>> ELSE Pair(f, Head(ss)) \o Pairs(f, Tail(ss))

\* One of the three blocks of gnupg_process_spawn that set up a standard
\* stream: a pipe, the null device, or the parent's own handle.
SpawnStream(f, s) ==
  IF PipeFlag(s) \in f.flags
    THEN LET r == IF s = "hd_in" THEN ChildEnd(f.id, s) ELSE PipeEnd(f.id, s)
             w == IF s = "hd_in" THEN PipeEnd(f.id, s) ELSE ChildEnd(f.id, s)
             inherit == IF s = "hd_in" THEN {"READ"} ELSE {"WRITE"}
         IN { IF c.ok
                THEN [c.f EXCEPT !.hd[s] = [child |-> ChildEnd(f.id, s),
                                            kept |-> PipeEnd(f.id, s)]]
                ELSE Return(FreeProcess(CloseValid(c.f, Pairs(c.f, Earlier(s)))),
                            "PIPE_ERROR")
              : c \in create_inheritable_pipe(f, r, w, inherit) }
  ELSE IF NullFlag(s) \in f.flags
    THEN { [n.f EXCEPT !.hd[s] = [child |-> n.hfile, kept |-> INVALID_HANDLE_VALUE]]
           : n \in w32_open_null(f, NullHandle(f.id, s)) }
  ELSE { [Note(f, "GetStdHandle", StdHandle(s)) EXCEPT
            !.hd[s] = [child |-> StdHandle(s), kept |-> INVALID_HANDLE_VALUE]] }

\* The handle list given to UpdateProcThreadAttribute (the array hd[] and
\* its length j).
InheritList(sca) ==
  (IF sca.hd["hd_in"] # INVALID_HANDLE_VALUE THEN <<sca.hd["hd_in"]>> ELSE <<>>)
  \o (IF sca.hd["hd_out"] # INVALID_HANDLE_VALUE THEN <<sca.hd["hd_out"]>> ELSE <<>>)
  \o (IF sca.hd["hd_out"] # INVALID_HANDLE_VALUE THEN <<sca.hd["hd_err"]>> ELSE <<>>)
  \o sca.inherit_hds

\* The attribute list block: frames that go on carry the list in cp.
SpawnAttributeList(f) ==
  IF (\E s \in Streams : f.sca.hd[s] # INVALID_HANDLE_VALUE) \/ f.sca.inherit_hds # <<>>
    THEN {Return(FreeProcess(CloseEach(Note(f, "xtrymalloc fails", 0),
                                       FlagCloseList(f, StreamOrder))),
                 "SYSERROR"),
          [Note(f, "UpdateProcThreadAttribute", 0) EXCEPT
             !.cp.list = InheritList(f.sca), !.cp.listed = TRUE,
             !.sca.ask_inherit = TRUE]}
    ELSE {f}

\* Variant: the success path closes the child's ends of the pipes only.
RECURSIVE ChildCloseList_pipes(_, _)
ChildCloseList_pipes(f, ss) ==
  IF ss = <<>> THEN <<>>
  ELSE (IF PipeFlag(Head(ss)) \in f.flags THEN <<f.hd[Head(ss)].child>> ELSE <<>>)
       \o ChildCloseList_pipes(f, Tail(ss))

\* The child's ends the success path closes: of every stream that got a
\* pipe or a null redirection.
RECURSIVE ChildCloseList(_, _)
ChildCloseList(f, ss) ==
  IF ss = <<>> THEN <<>>
  ELSE (IF PipeFlag(Head(ss)) \in f.flags \/ NullFlag(Head(ss)) \in f.flags
          THEN <<f.hd[Head(ss)].child>> ELSE <<>>)
       \o ChildCloseList(f, Tail(ss))

\* The entry of gnupg_process_spawn: the out parameter is cleared, the
\* command line built and the process record allocated.
SpawnStart(h, flags, cb, r_null) ==
  LET f == Frame("gnupg_process_spawn", h, flags, cb, {}, r_null)
      g == IF r_null THEN f ELSE [f EXCEPT !.r_process = "NULL"]
      alloc(x) == {Return(Note(x, "xtrymalloc fails", 0), "SYSERROR"),
                   [x EXCEPT !.p = [NoProcess EXCEPT !.alloc = "live", !.flags = flags]]}
  IN Then({IF c.ok THEN c.f ELSE Return(c.f, "SYSERROR") : c \in CmdlineBuilt(g)}, alloc)

\* Variant: the DETACHED block does not look at the stream options.
SpawnDetached_unchecked(f) ==
  IF "DETACHED" \in f.flags
    THEN IF f.r_null
           THEN {Return(Note(f, "write through NULL r_process", 0), "ACCESS_VIOLATION")}
           ELSE spawn_detached([f EXCEPT !.r_process = "process"])
    ELSE {f}

\* The DETACHED block.
SpawnDetached(f) ==
  IF "DETACHED" \in f.flags
    THEN IF f.flags \cap GNUPG_PROCESS_STDFDS_SETTING # {}
           THEN {Return(FreeProcess(f), "GPG_ERR_INV_FLAG")}
         ELSE IF f.r_null
           THEN {Return(Note(f, "write through NULL r_process", 0), "ACCESS_VIOLATION")}
         ELSE spawn_detached([f EXCEPT !.r_process = "process"])
    ELSE {f}

SpawnSocketpair(f) ==
  IF "STDINOUT_SOCKETPAIR" \in f.flags
    THEN {Return(FreeProcess(f), "GPG_ERR_NOT_SUPPORTED")}
    ELSE {f}

\* sca is filled with the handles chosen for the child and the callback run.
SpawnCallback(f) ==
  {spawn_cb([f EXCEPT !.sca = [NoSca EXCEPT !.hd = [s \in Streams |-> f.hd[s].child]]])}

\* Variant: the process is not created suspended.
SpawnCreate_running(f) ==
  { IF c.ret
      THEN c.f
      ELSE Return(FreeProcess(CloseEach(c.f, FlagCloseList(c.f, StreamOrder))),
                  "GPG_ERR_GENERAL")
    : c \in CreateProcess(f, f.sca.ask_inherit, {"CREATE_DEFAULT_ERROR_MODE"},
                          f.sca.hd, TRUE, f.cp.list, f.cp.listed) }

\* Process creation and its failure path.
SpawnCreate(f) ==
  { IF c.ret
      THEN c.f
      ELSE Return(FreeProcess(CloseEach(c.f, FlagCloseList(c.f, StreamOrder))),
                  "GPG_ERR_GENERAL")
    : c \in CreateProcess(f, f.sca.ask_inherit,
                          {"CREATE_DEFAULT_ERROR_MODE", "CREATE_SUSPENDED"},
                          f.sca.hd, TRUE, f.cp.list, f.cp.listed) }

\* Variant: without r_process the child is polled, not waited for.
SpawnSucceeded_polls(f0) ==
  LET closed == CloseEach(f0, ChildCloseList(f0, StreamOrder))
      fg == IF closed.sca.allow_foreground_window
              THEN Note(closed, "AllowSetForegroundWindow", 0) ELSE closed
      resumed == [Note(CloseHandle(Note(Note(fg, "pre_syscall", 0), "ResumeThread", f0.id),
                                   ThreadHandle(f0.id)), "post_syscall", 0)
                  EXCEPT !.resumed = TRUE]
      f == [resumed EXCEPT !.p.hProcess = f0.id,
                           !.p.hd_in = f0.hd["hd_in"].kept,
                           !.p.hd_out = f0.hd["hd_out"].kept,
                           !.p.hd_err = f0.hd["hd_err"].kept,
                           !.p.exitcode = -1,
                           !.p.terminated = FALSE,
                           !.pset = TRUE]
      P == [h \in Slots |-> IF h = f.id THEN f.p ELSE NoProcess]
      O == [h \in Slots |-> IF h = f.id THEN f.child ELSE NoOsProcess]
  IN IF f.r_null
       THEN UNION {{[f EXCEPT !.done = TRUE, !.ec = w.ec, !.tr = @ \o w.tr \o r.tr,
                              !.p = r.P[f.id], !.child = r.O[f.id]]
                    : r \in gnupg_process_release(w.P, w.O, f.id)}
                   : w \in gnupg_process_wait(P, O, f.id, FALSE)}
       ELSE {Return([f EXCEPT !.r_process = "process"], "OK")}

\* The part of gnupg_process_spawn after the process was created.
SpawnSucceeded(f0) ==
  LET closed == CloseEach(f0, ChildCloseList(f0, StreamOrder))
      fg == IF closed.sca.allow_foreground_window
              THEN Note(closed, "AllowSetForegroundWindow", 0) ELSE closed
      resumed == [Note(CloseHandle(Note(Note(fg, "pre_syscall", 0), "ResumeThread", f0.id),
                                   ThreadHandle(f0.id)), "post_syscall", 0)
                  EXCEPT !.resumed = TRUE]
      f == [resumed EXCEPT !.p.hProcess = f0.id,
                           !.p.hd_in = f0.hd["hd_in"].kept,
                           !.p.hd_out = f0.hd["hd_out"].kept,
                           !.p.hd_err = f0.hd["hd_err"].kept,
                           !.p.exitcode = -1,
                           !.p.terminated = FALSE,
                           !.pset = TRUE]
      P == [h \in Slots |-> IF h = f.id THEN f.p ELSE NoProcess]
      O == [h \in Slots |-> IF h = f.id THEN f.child ELSE NoOsProcess]
  IN IF f.r_null
       THEN UNION {{[f EXCEPT !.done = TRUE, !.ec = w.ec, !.tr = @ \o w.tr \o r.tr,
                              !.p = r.P[f.id], !.child = r.O[f.id]]
                    : r \in gnupg_process_release(w.P, w.O, f.id)}
                   : w \in gnupg_process_wait(P, O, f.id, TRUE)}
       ELSE {Return([f EXCEPT !.r_process = "process"], "OK")}

gnupg_process_spawn(h, flags, cb, r_null) ==
  Then(Then(Then(Then(Then(Then(Then(Then(Then(
    SpawnStart(h, flags, cb, r_null),
    SpawnDetached), SpawnSocketpair),
    LAMBDA f : SpawnStream(f, "hd_in")),
    LAMBDA f : SpawnStream(f, "hd_out")),
    LAMBDA f : SpawnStream(f, "hd_err")),
    SpawnCallback), SpawnAttributeList), SpawnCreate), SpawnSucceeded)

\* ------------------------------------------------ gnupg_spawn_process (pid)
\* es_fclose (fp): closes the stream and the handle it was opened on.
es_fclose(f, fp) ==
  [f EXCEPT !.tr = Append(@, Call("es_fclose", HandleBehind("stream", fp))),
            !.open = @ \ {HandleBehind("stream", fp)},
            !.inheritable = @ \ {HandleBehind("stream", fp)}]

\* The unwinding of one stream's pipe on the failure paths of
\* gnupg_spawn_process; stdin is written "stream or kept end, then child
\* end", stdout and stderr likewise with the ends at the other index.
\* other is the handle the code names in the else branch.
UnwindStream(f, s, other) ==
  LET a == IF f.fp[s] # 0 THEN es_fclose(f, f.fp[s])
           ELSE IF f.hd[s].kept # INVALID_HANDLE_VALUE THEN CloseHandle(f, other)
           ELSE f
  IN IF f.hd[s].child # INVALID_HANDLE_VALUE THEN CloseHandle(a, f.hd[s].child) ELSE a

\* The cleanup written out in the block of stream s for the streams before it.
RECURSIVE UnwindEarlier(_, _)
UnwindEarlier(f, ss) ==
  IF ss = <<>> THEN f
  ELSE LET s == ss[Len(ss)]
       IN UnwindEarlier(UnwindStream(f, s, f.hd[s].kept), SubSeq(ss, 1, Len(ss) - 1))

\* One of the three blocks "if (r_xfp)": the pipe and the stream on the
\* parent's end.
PidPipe(f, s) ==
  IF s \notin f.want THEN {f}
  ELSE
    LET r == IF s = "hd_in" THEN ChildEnd(f.id, s) ELSE PipeEnd(f.id, s)
        w == IF s = "hd_in" THEN PipeEnd(f.id, s) ELSE ChildEnd(f.id, s)
        inherit == IF s = "hd_in" THEN {"READ"} ELSE {"WRITE"}
        wrap(c) ==
          IF ~c.ok
            THEN {Return(Note(c.f, "log_error: error creating a pipe", 0), "GPG_ERR_GENERAL")}
            ELSE
              LET g == [c.f EXCEPT !.hd[s] = [child |-> ChildEnd(f.id, s),
                                              kept |-> PipeEnd(f.id, s)]]
              IN { IF fp # 0
                     THEN [Note(g, "es_sysopen", PipeEnd(f.id, s)) EXCEPT !.fp[s] = fp]
                     ELSE Return(
                            UnwindEarlier(
                              [CloseEach(Note(g, "es_sysopen fails", PipeEnd(f.id, s)), <<r, w>>)
                                 EXCEPT !.hd[s] = NoPair],
                              Earlier(s)),
                            "SYSERROR")
                   : fp \in es_sysopen(PipeEnd(f.id, s)) }
    IN UNION {wrap(c) : c \in create_inheritable_pipe(f, r, w, inherit)}

\* The flag tested for the stream when no pipe was made for it.
KeepTest(s) == CASE s = "hd_in" -> "KEEP_STDIN" [] s = "hd_out" -> "KEEP_STDOUT"
                 [] s = "hd_err" -> "KEEP_STDOUT"

\* nullhd[i] for a stream without a pipe: the parent's handle or the null
\* device.
PidNull(f, s) ==
  IF f.hd[s].child # INVALID_HANDLE_VALUE THEN {f}
  ELSE IF KeepTest(s) \in f.flags
    THEN {[Note(f, "GetStdHandle", StdHandle(s)) EXCEPT !.nullhd[s] = StdHandle(s)]}
    ELSE {[n.f EXCEPT !.nullhd[s] = n.hfile] : n \in w32_open_null(f, NullHandle(f.id, s))}

\* The startup information and process creation with its failure path.
PidCreate(f) ==
  LET si == [s \in Streams |-> IF f.hd[s].child = INVALID_HANDLE_VALUE
                                 THEN f.nullhd[s] ELSE f.hd[s].child]
      cr_flags == {"CREATE_DEFAULT_ERROR_MODE", "CREATE_SUSPENDED"}
                  \cup (IF "DETACHED" \in f.flags THEN {"DETACHED_PROCESS"} ELSE {})
      failed(g) ==
        LET a == UnwindStream(g, "hd_in", g.hd["hd_out"].child)
            b == UnwindStream(a, "hd_out", a.hd["hd_out"].kept)
            c == UnwindStream(b, "hd_err", b.hd["hd_err"].kept)
        IN Return(c, "GPG_ERR_GENERAL")
  IN {IF c.ret THEN c.f ELSE failed(c.f)
      : c \in CreateProcess(f, TRUE, cr_flags, si, TRUE, <<>>, FALSE)}

\* After the process was created: the handles given to the child are
\* closed in the parent, the child is resumed, the results stored.
PidSucceeded(f) ==
  LET a == CloseValid(f, [k \in 1..3 |-> f.nullhd[StreamOrder[k]]])
      b == CloseValid(a, [k \in 1..3 |-> f.hd[StreamOrder[k]].child])
      c == IF "RUN_ASFW" \in f.flags
             THEN Note(b, "gnupg_allow_set_foregound_window", 0) ELSE b
      d == [CloseHandle(Note(c, "ResumeThread", f.id), ThreadHandle(f.id))
              EXCEPT !.resumed = TRUE]
  IN {Return([d EXCEPT !.out = [pid |-> f.id,
                                fp |-> [s \in Streams |->
                                          IF s \in f.want THEN f.fp[s] ELSE 0]]],
             "OK")}

gnupg_spawn_process(pid, flags, want) ==
  Then(Then(Then(Then(Then(Then(Then(Then(Then(
    {Frame("gnupg_spawn_process", pid, flags, "none", want, FALSE)},
    LAMBDA f : PidPipe(f, "hd_in")),
    LAMBDA f : PidPipe(f, "hd_out")),
    LAMBDA f : PidPipe(f, "hd_err")),
    LAMBDA f : {IF c.ok THEN c.f ELSE Return(c.f, "SYSERROR") : c \in CmdlineBuilt(f)}),
    LAMBDA f : PidNull(f, "hd_in")),
    LAMBDA f : PidNull(f, "hd_out")),
    LAMBDA f : PidNull(f, "hd_err")),
    PidCreate), PidSucceeded)

\* ------------------------------------------------------- the pipe factory
\* The two ends CreatePipe returns to call i.
PipeRead(i) == 700 + i
PipeWrite(i) == 800 + i

\* close (fd) of a C runtime descriptor: the handle behind it is closed.
close(f, fd) ==
  [f EXCEPT !.tr = Append(@, Call("close", HandleBehind("fd", fd))),
            !.open = @ \ {HandleBehind("fd", fd)},
            !.inheritable = @ \ {HandleBehind("fd", fd)}]

\* create_pipe_and_estream (filedes, flags, r_fp, outbound, nonblock) in
\* frame f; flags are the inheritable ends, r_fp tells whether the caller
\* asks for a stream.
create_pipe_and_estream(f, flags, r_fp, outbound) ==
  LET r == PipeRead(f.id)
      w == PipeWrite(f.id)
      stream(g) ==
        IF ~r_fp THEN {Return(g, "OK")}
        ELSE { IF fp # 0
                 THEN Return([Note(g, "es_sysopen", IF outbound THEN w ELSE r)
                                EXCEPT !.pipefp = fp], "OK")
                 ELSE Return([close(close(Note(Note(g, "es_sysopen fails",
                                                    IF outbound THEN w ELSE r),
                                               "log_error: error creating a stream for a pipe", 0),
                                          g.filedes[1]), g.filedes[2])
                                EXCEPT !.filedes = <<-1, -1>>], "SYSERROR")
               : fp \in es_sysopen(IF outbound THEN w ELSE r) }
      second(g, fd0) ==
        UNION { IF fd1 = -1
                  THEN {Return(CloseHandle(close(Note(Note(g, "_open_osfhandle", w),
                                                      "log_error: failed to translate osfhandle", w),
                                                 fd0), w),
                               "GPG_ERR_GENERAL")}
                  ELSE stream([Note(g, "_open_osfhandle", w) EXCEPT !.filedes = <<fd0, fd1>>])
                : fd1 \in open_osfhandle(w) }
      first(g) ==
        UNION { IF fd0 = -1
                  THEN {Return(CloseHandle(Note(Note(g, "_open_osfhandle", r),
                                                "log_error: failed to translate osfhandle", r), w),
                               "GPG_ERR_GENERAL")}
                  ELSE second(Note(g, "_open_osfhandle", r), fd0)
                : fd0 \in open_osfhandle(r) }
  IN UNION { IF c.ok THEN first(c.f) ELSE {Return(c.f, "GPG_ERR_GENERAL")}
             : c \in create_inheritable_pipe([f EXCEPT !.flags = flags], r, w, flags) }

gnupg_create_inbound_pipe(i, r_fp) ==
  create_pipe_and_estream(Frame("gnupg_create_inbound_pipe", i, {}, "none", {}, FALSE),
                          {"WRITE"}, r_fp, FALSE)

gnupg_create_outbound_pipe(i, r_fp) ==
  create_pipe_and_estream(Frame("gnupg_create_outbound_pipe", i, {}, "none", {}, FALSE),
                          {"READ"}, r_fp, TRUE)

gnupg_create_pipe(i) ==
  create_pipe_and_estream(Frame("gnupg_create_pipe", i, {}, "none", {}, FALSE),
                          {"READ", "WRITE"}, FALSE, FALSE)

\* --------------------------------------------------- build_w32_commandline
\* A C string is the sequence of its characters, each character a name;
\* Chars are the characters of the strpbrk set of line 198, the backslash
\* and one ordinary character.
QuotingChars == {"SP", "TAB", "NL", "VT", "FF", "QUOTE"}
Chars == QuotingChars \cup {"BSLASH", "a"}

\* The loop of lines 202-207: every character is copied, a double quote
\* is copied twice.
RECURSIVE CopyDoubling(_, _)
CopyDoubling(p, s) ==
  IF s = <<>> THEN p
  ELSE CopyDoubling(IF Head(s) = "QUOTE" THEN p \o <<"QUOTE", "QUOTE">>
                                         ELSE Append(p, Head(s)),
                    Tail(s))

\* Variant: an embedded double quote is escaped with a backslash.
build_w32_commandline_copy_backslash(buffer, string) ==
  LET escape[k \in 0..Len(string)] ==
        IF k = 0 THEN <<>>
        ELSE escape[k - 1] \o (IF string[k] = "QUOTE" THEN <<"BSLASH", "QUOTE">>
                                                      ELSE <<string[k]>>)
  IN IF string = <<>> THEN buffer \o <<"QUOTE", "QUOTE">>
     ELSE IF \E k \in 1..Len(string) : string[k] \in QuotingChars
       THEN buffer \o <<"QUOTE">> \o escape[Len(string)] \o <<"QUOTE">>
     ELSE buffer \o string

\* build_w32_commandline_copy (buffer, string): the buffer with the
\* rendering of string written at its end.
build_w32_commandline_copy(buffer, string) ==
  IF string = <<>> THEN buffer \o <<"QUOTE", "QUOTE">>
  ELSE IF \E k \in 1..Len(string) : string[k] \in QuotingChars
    THEN Append(CopyDoubling(Append(buffer, "QUOTE"), string), "QUOTE")
  ELSE buffer \o string

\* Variant: the double quotes of a string are not counted.
RECURSIVE CountSize_plain(_, _)
CountSize_plain(n, strings) ==
  IF strings = <<>> THEN n + 1
  ELSE CountSize_plain(n + Len(Head(strings)) + 1 + 2, Tail(strings))

\* The size computed at lines 228-241: per string its length, one space,
\* two quotes and one more for each double quote in it; one for the NUL.
RECURSIVE CountSize(_, _)
CountSize(n, strings) ==
  IF strings = <<>> THEN n + 1
  ELSE LET s == Head(strings)
       IN CountSize(n + Len(s) + 1 + 2
                      + Cardinality({k \in 1..Len(s) : s[k] = "QUOTE"}),
                    Tail(strings))

\* The loop of lines 248-252.
RECURSIVE CopyArguments(_, _)
CopyArguments(p, argv) ==
  IF argv = <<>> THEN p
  ELSE CopyArguments(build_w32_commandline_copy(Append(p, "SP"), Head(argv)), Tail(argv))

\* build_w32_commandline (pgmname, argv, &cmdline): the allocation fails,
\* or the command line is written into a buffer of n bytes.
build_w32_commandline(pgmname, argv) ==
  LET n == CountSize(0, <<pgmname>> \o argv)
  IN {[ok |-> FALSE, n |-> n, cmdline |-> <<>>],
      [ok |-> TRUE, n |-> n,
       cmdline |-> CopyArguments(build_w32_commandline_copy(<<>>, pgmname), argv)]}

\* --------------------------------------------------- gnupg_spawn_process_fd
\* stdhd[i]: the null device for every stream the caller gave no
\* descriptor for (given: the streams with a descriptor other than -1).
FdNull(f, s) ==
  IF s \in f.want THEN {f}
  ELSE {[n.f EXCEPT !.nullhd[s] = n.hfile] : n \in w32_open_null(f, NullHandle(f.id, s))}

\* Process creation and what follows it on either outcome.
FdCreate(f) ==
  LET si == [s \in Streams |-> IF s \in f.want THEN CallerHandle(s) ELSE f.nullhd[s]]
      cr_flags == {"CREATE_DEFAULT_ERROR_MODE", "CREATE_SUSPENDED", "DETACHED_PROCESS"}
      after(c) ==
        LET g == CloseValid(c.f, [k \in 1..3 |-> c.f.nullhd[StreamOrder[k]]])
        IN IF ~c.ret
             THEN Return(g, "GPG_ERR_GENERAL")
             ELSE Return([CloseHandle(Note(g, "ResumeThread", f.id), ThreadHandle(f.id))
                            EXCEPT !.resumed = TRUE, !.out.pid = f.id], "OK")
  IN {after(c) : c \in CreateProcess(f, TRUE, cr_flags, si, TRUE, <<>>, FALSE)}

gnupg_spawn_process_fd(pid, given) ==
  Then(Then(Then(Then(Then(
    {Frame("gnupg_spawn_process_fd", pid, {}, "none", given, FALSE)},
    LAMBDA f : {IF c.ok THEN c.f ELSE Return(c.f, "SYSERROR") : c \in CmdlineBuilt(f)}),
    LAMBDA f : FdNull(f, "hd_in")),
    LAMBDA f : FdNull(f, "hd_out")),
    LAMBDA f : FdNull(f, "hd_err")),
    FdCreate)

\* ------------------------------------------- gnupg_spawn_process_detached
\* IsProcessInJob (GetCurrentProcess (), NULL, &in_job): the parent's job
\* membership (the frame's job), or the call fails.
IsProcessInJob(f) ==
  {[ok |-> TRUE, in_job |-> f.job.in_job, f |-> Note(f, "IsProcessInJob", 0)],
   [ok |-> FALSE, in_job |-> FALSE, f |-> Note(f, "IsProcessInJob fails", 0)]}

\* QueryInformationJobObject (NULL, JobObjectExtendedLimitInformation, ..):
\* the limit flags of the parent's job, or the call fails.
QueryInformationJobObject(f) ==
  {[ok |-> TRUE, limits |-> f.job.limits, f |-> Note(f, "QueryInformationJobObject", 0)],
   [ok |-> FALSE, limits |-> {}, f |-> Note(f, "QueryInformationJobObject fails", 0)]}

\* Variant: silent breakaway is taken as permission too.
BreakawayFlags_silent(f) ==
  LET query(g) ==
        {[f |-> IF q.ok THEN q.f ELSE Note(q.f, "log_error: QueryInformationJobObject() failed", 0),
          cr_flags |-> IF q.ok /\ q.limits # {}
                         THEN {"CREATE_BREAKAWAY_FROM_JOB"} ELSE {}]
         : q \in QueryInformationJobObject(g)}
      member(j) ==
        LET g == IF j.ok THEN j.f ELSE Note(j.f, "log_error: IsProcessInJob() failed", 0)
        IN IF j.ok /\ j.in_job THEN query(g) ELSE {[f |-> g, cr_flags |-> {}]}
  IN UNION {member(j) : j \in IsProcessInJob(f)}

\* The job block: the creation flags it adds, with the frame after it.
BreakawayFlags(f) ==
  LET query(g) ==
        {[f |-> IF q.ok THEN q.f ELSE Note(q.f, "log_error: QueryInformationJobObject() failed", 0),
          cr_flags |-> IF q.ok /\ "JOB_OBJECT_LIMIT_BREAKAWAY_OK" \in q.limits
                         THEN {"CREATE_BREAKAWAY_FROM_JOB"} ELSE {}]
         : q \in QueryInformationJobObject(g)}
      member(j) ==
        LET g == IF j.ok THEN j.f ELSE Note(j.f, "log_error: IsProcessInJob() failed", 0)
        IN IF j.ok /\ j.in_job THEN query(g) ELSE {[f |-> g, cr_flags |-> {}]}
  IN UNION {member(j) : j \in IsProcessInJob(f)}

\* The creation flags, process creation and what follows it.
DetachedCreate(f) ==
  LET cr_flags == {"CREATE_DEFAULT_ERROR_MODE", "CREATE_NEW_PROCESS_GROUP",
                   "DETACHED_PROCESS"}
      after(c) ==
        IF ~c.ret
          THEN Return(c.f, "GPG_ERR_GENERAL")
          ELSE Return([CloseEach(c.f, <<ThreadHandle(f.id), f.id>>)
                         EXCEPT !.child = GoneOsProcess], "OK")
  IN UNION {{after(c) : c \in CreateProcess(b.f, FALSE, cr_flags \cup b.cr_flags,
                                            NoHandles, FALSE, <<>>, FALSE)}
            : b \in BreakawayFlags(f)}

gnupg_spawn_process_detached(i, job) ==
  Then(Then(Then(
    {[Frame("gnupg_spawn_process_detached", i, {}, "none", {}, FALSE) EXCEPT !.job = job]},
    LAMBDA f : {IF a.ec = "OK" THEN a.f ELSE Return(a.f, a.ec) : a \in gnupg_access(f)}),
    LAMBDA f : {IF c.ok THEN c.f ELSE Return(c.f, "SYSERROR") : c \in CmdlineBuilt(f)}),
    DetachedCreate)

\* ---------------------------------------------------------------- actions
Live(h) == proc[h].alloc = "live"

\* The record of a call on handle h.  info gives the call's arguments.
Record(op, h, info, o) ==
  [op |-> op, h |-> h, list |-> info.list, hang |-> info.hang, want |-> info.want,
   pre |-> Before(proc[h]), ec |-> o.ec, tr |-> o.tr,
   out |-> IF info.want = {} THEN o.out ELSE <<>>,
   running |-> (o.O[h].state = "running"), wcode |-> "none", codes |-> <<>>]

NoInfo == [list |-> <<>>, hang |-> FALSE, want |-> {}]

Apply(op, h, info, o) ==
  /\ proc' = o.P
  /\ os' = [s \in Slots |-> IF o.P[s].alloc = "freed" THEN GoneOsProcess ELSE o.O[s]]
  /\ last' = Record(op, h, info, o)
  /\ UNCHANGED <<launch, cmd>>

\* gnupg_process_spawn returning success with a process object: the
\* fields as the launch leaves them.
SpawnedProcess(h, flags) ==
  IF "DETACHED" \in flags
    THEN [alloc |-> "live", flags |-> flags, terminated |-> TRUE,
          hProcess |-> INVALID_HANDLE_VALUE, hd_in |-> INVALID_HANDLE_VALUE,
          hd_out |-> INVALID_HANDLE_VALUE, hd_err |-> INVALID_HANDLE_VALUE,
          exitcode |-> -1]
    ELSE [alloc |-> "live", flags |-> flags, terminated |-> FALSE,
          hProcess |-> h,
          hd_in |-> IF "STDIN_PIPE" \in flags THEN PipeEnd(h, "hd_in")
                    ELSE INVALID_HANDLE_VALUE,
          hd_out |-> IF "STDOUT_PIPE" \in flags THEN PipeEnd(h, "hd_out")
                     ELSE INVALID_HANDLE_VALUE,
          hd_err |-> IF "STDERR_PIPE" \in flags THEN PipeEnd(h, "hd_err")
                     ELSE INVALID_HANDLE_VALUE,
          exitcode |-> -1]

Spawn(h, flags) ==
  /\ proc[h].alloc = "none"
  /\ proc' = [proc EXCEPT ![h] = SpawnedProcess(h, flags)]
  /\ os' = [os EXCEPT ![h] = IF "DETACHED" \in flags THEN GoneOsProcess
                              ELSE [state |-> "running", code |-> 0]]
  /\ last' = [NoCall EXCEPT !.op = "spawn", !.h = h,
                            !.running = ("DETACHED" \notin flags)]
  /\ UNCHANGED <<delivered, launch, cmd>>

\* The child ends on its own.
ChildExit(h, c) ==
  /\ os[h].state = "running"
  /\ os' = [os EXCEPT ![h] = [state |-> "exited", code |-> c]]
  /\ UNCHANGED <<proc, delivered, last, launch, cmd>>

Wait(h, hang) ==
  /\ Live(h)
  /\ \E o \in gnupg_process_wait(proc, os, h, hang) :
       Apply("wait", h, [NoInfo EXCEPT !.hang = hang], o)
  /\ UNCHANGED delivered

WaitList(list, hang) ==
  /\ \A k \in 1..Len(list) : Live(list[k])
  /\ \E o \in gnupg_process_wait_list(proc, os, list, hang) :
       Apply("wait_list", IF list = <<>> THEN 1 ELSE list[1],
             [NoInfo EXCEPT !.hang = hang, !.list = list], o)
  /\ UNCHANGED delivered

Terminate(h) ==
  /\ Live(h)
  /\ \E o \in gnupg_process_terminate(proc, os, h) : Apply("terminate", h, NoInfo, o)
  /\ UNCHANGED delivered

Release(h) ==
  /\ Live(h)
  /\ \E o \in gnupg_process_release(proc, os, h) : Apply("release", h, NoInfo, o)
  /\ UNCHANGED delivered

Ctl(h, request, arg) ==
  /\ Live(h)
  /\ \E o \in gnupg_process_ctl(proc, os, h, request, arg) :
       /\ Apply(request, h,
                [NoInfo EXCEPT !.want = arg.want],
                o)
       /\ delivered' =
            IF request = "GET_HANDLES"
              THEN [delivered EXCEPT ![h] = Counted(delivered[h], "handle", o.out)]
              ELSE delivered

GetFds(h, want) ==
  /\ Live(h)
  /\ \E o \in gnupg_process_get_fds(proc, os, h, want) :
       /\ Apply("get_fds", h, [NoInfo EXCEPT !.want = want], o)
       /\ delivered' = [delivered EXCEPT ![h] = Counted(delivered[h], "fd", o.out)]

GetStreams(h, want) ==
  /\ Live(h)
  /\ \E o \in gnupg_process_get_streams(proc, os, h, want) :
       /\ Apply("get_streams", h, [NoInfo EXCEPT !.want = want], o)
       /\ delivered' = [delivered EXCEPT ![h] = Counted(delivered[h], "stream", o.out)]

\* The arguments a request reads; the others are left at a fixed value.
NoArg == [null |-> FALSE, want |-> {}, exitcode |-> 0]
CtlArgs(request) ==
  CASE request \in {"GET_ID", "GET_P_HANDLE"} ->
         {[NoArg EXCEPT !.null = n] : n \in BOOLEAN}
    [] request = "GET_HANDLES" -> {[NoArg EXCEPT !.want = w] : w \in SUBSET Streams}
    [] request = "KILL_WITH_EC" -> {[NoArg EXCEPT !.exitcode = e] : e \in ExitCodes}
    [] OTHER -> {NoArg}

Lists == UNION {[1..n -> Slots] : n \in 0..MaxList}

Init ==
  /\ proc = [h \in Slots |-> NoProcess]
  /\ os = [h \in Slots |-> NoOsProcess]
  /\ delivered = [h \in Slots |-> [s \in Streams |-> 0]]
  /\ last = NoCall
  /\ launch = NoLaunch
  /\ cmd = NoCmd

\* One process handle with every operation of the API applied to it.
Primary == CHOOSE h \in Slots : \A g \in Slots : h <= g

Next ==
  \/ \E f \in FlagChoices : Spawn(Primary, f)
  \/ \E h \in Slots, c \in ExitCodes : ChildExit(h, c)
  \/ \E h \in Slots, hang \in BOOLEAN : Wait(h, hang)
  \/ \E list \in Lists, hang \in BOOLEAN : WaitList(list, hang)
  \/ \E h \in Slots : Terminate(h)
  \/ \E h \in Slots : Release(h)
  \/ \E h \in Slots, r \in Requests : \E a \in CtlArgs(r) : Ctl(h, r, a)
  \/ \E h \in Slots, w \in SUBSET Streams : GetFds(h, w)
  \/ \E h \in Slots, w \in SUBSET Streams : GetStreams(h, w)

Spec == Init /\ [][Next]_vars

\* Several process handles, launched without pipes, under the operations
\* that read or write the lifecycle fields.
NextList ==
  \/ \E h \in Slots, f \in {{}, {"DETACHED"}} : Spawn(h, f)
  \/ \E h \in Slots, c \in ExitCodes : ChildExit(h, c)
  \/ \E h \in Slots, hang \in BOOLEAN : Wait(h, hang)
  \/ \E list \in Lists, hang \in BOOLEAN : WaitList(list, hang)
  \/ \E h \in Slots : Terminate(h)
  \/ \E h \in Slots : Release(h)
  \/ \E h \in Slots, r \in Requests \ {"GET_HANDLES"} : \E a \in CtlArgs(r) : Ctl(h, r, a)

SpecList == Init /\ [][NextList]_vars

\* --------------------------------------------------- the pid API's actions
ApplyPid(op, pids, hang, want, r) ==
  /\ os' = r.O
  /\ last' = [NoCall EXCEPT !.op = op, !.list = pids, !.hang = hang,
                            !.want = IF want THEN {"r_exitcodes"} ELSE {},
                            !.ec = r.ec, !.tr = r.tr, !.wcode = r.wcode,
                            !.codes = r.codes]
  /\ UNCHANGED <<proc, delivered, launch, cmd>>

WaitProcesses(pids, hang, want) ==
  \E r \in gnupg_wait_processes(os, pids, hang, want) :
    ApplyPid("wait_processes", pids, hang, want, r)

WaitProcess(pid, hang, want) ==
  \E r \in gnupg_wait_process(os, pid, hang, want) :
    ApplyPid("wait_process", <<pid>>, hang, want, r)

KillProcess(pid) ==
  \E r \in gnupg_kill_process(os, pid) :
    ApplyPid("kill_process", <<pid>>, FALSE, FALSE, r)

\* The pid lists the caller passes: the i-th entry is the pid of process i
\* or the sentinel.
PidLists == UNION {{l \in [1..n -> Pids \cup {-1}] : \A i \in 1..n : l[i] \in {i, -1}}
                   : n \in 0..Cardinality(Pids)}

\* The processes were launched earlier through gnupg_spawn_process; each is
\* running or has exited.
InitPid ==
  /\ proc = [h \in Slots |-> NoProcess]
  /\ os \in [Pids -> {[state |-> "running", code |-> 0]}
                     \cup {[state |-> "exited", code |-> c] : c \in PidExitCodes}]
  /\ delivered = [h \in Slots |-> [s \in Streams |-> 0]]
  /\ last = NoCall
  /\ launch = NoLaunch
  /\ cmd = NoCmd

NextPid ==
  \/ \E p \in Pids, c \in PidExitCodes : ChildExit(p, c)
  \/ \E l \in PidLists, hang \in BOOLEAN, want \in BOOLEAN : WaitProcesses(l, hang, want)
  \/ \E p \in Pids \cup {-1}, hang \in BOOLEAN, want \in BOOLEAN : WaitProcess(p, hang, want)
  \/ \E p \in Pids \cup {-1} : KillProcess(p)

SpecPid == InitPid /\ [][NextPid]_vars

\* ------------------------------------------------------ the launch actions
\* The options a caller gives gnupg_process_spawn: per stream a pipe, the
\* null device or neither, with or without DETACHED; both options for one
\* stream; and the socketpair request.
StreamChoices == [Streams -> {"pipe", "null", "inherit"}]
StreamFlags(ch) ==
  {PipeFlag(s) : s \in {t \in Streams : ch[t] = "pipe"}}
  \cup {NullFlag(s) : s \in {t \in Streams : ch[t] = "null"}}
SpawnFlagSets ==
  {StreamFlags(ch) : ch \in StreamChoices}
  \cup {StreamFlags(ch) \cup {"DETACHED"} : ch \in StreamChoices}
  \cup {{PipeFlag(s), NullFlag(s)} : s \in Streams}
  \cup {{"STDINOUT_SOCKETPAIR"}, {"DETACHED", "STDINOUT_SOCKETPAIR"}}

\* A launch call is looked at on its own: each behaviour makes one.  The
\* call is made while the parent runs in job; gnupg_process_spawn itself
\* never asks about the job.
ProcessSpawn(h, flags, cb, r_null, job) ==
  /\ launch = NoLaunch
  /\ proc[h].alloc = "none"
  /\ \E f \in gnupg_process_spawn(h, flags, cb, r_null) :
       /\ launch' = [f EXCEPT !.job = job]
       /\ proc' = [proc EXCEPT ![h] = f.p]
       /\ os' = [os EXCEPT ![h] = IF f.p.alloc = "freed" THEN GoneOsProcess ELSE f.child]
  /\ UNCHANGED <<delivered, last, cmd>>

\* The flags given to gnupg_spawn_process.
PidFlagSets ==
  SUBSET {KeepFlag(s) : s \in Streams} \cup {{"DETACHED"}, {"RUN_ASFW"}}

\* A launch through the pid API: the process is known to the caller by
\* the pid stored through the out parameter.
PidLaunch(h, f) ==
  /\ launch = NoLaunch
  /\ os[h].state = "none"
  /\ launch' = f
  /\ os' = [os EXCEPT ![h] = f.child]
  /\ UNCHANGED <<proc, delivered, last, cmd>>

SpawnProcess(pid, flags, want) ==
  \E f \in gnupg_spawn_process(pid, flags, want) : PidLaunch(pid, f)

SpawnProcessFd(pid, given) ==
  \E f \in gnupg_spawn_process_fd(pid, given) : PidLaunch(pid, f)

\* A call of the pipe factory, looked at on its own like a launch:
\* create_inheritable_pipe with each of the four masks, and the three
\* wrappers with and without a stream asked for.
InheritablePipe(i, flags) ==
  /\ launch = NoLaunch
  /\ \E c \in create_inheritable_pipe(
                [Frame("create_inheritable_pipe", i, {}, "none", {}, FALSE)
                   EXCEPT !.flags = flags],
                PipeRead(i), PipeWrite(i), flags) :
       launch' = Return(c.f, IF c.ok THEN "OK" ELSE "GPG_ERR_GENERAL")
  /\ UNCHANGED <<proc, os, delivered, last, cmd>>

CreatePipe(i, op, r_fp) ==
  /\ launch = NoLaunch
  /\ \E f \in CASE op = "gnupg_create_inbound_pipe" -> gnupg_create_inbound_pipe(i, r_fp)
                [] op = "gnupg_create_outbound_pipe" -> gnupg_create_outbound_pipe(i, r_fp)
                [] op = "gnupg_create_pipe" -> gnupg_create_pipe(i) :
       launch' = f
  /\ UNCHANGED <<proc, os, delivered, last, cmd>>

\* The jobs a launch is tried in: every one for a detached launch, for
\* which the job decides whether the child outlives the parent.
JobsFor(flags) == IF "DETACHED" \in flags THEN Jobs ELSE {NoJob}

SpawnProcessDetached(pid, job) ==
  \E f \in gnupg_spawn_process_detached(pid, job) : PidLaunch(pid, f)

NextLaunch ==
  \/ \E f \in SpawnFlagSets, cb \in Callbacks, n \in BOOLEAN :
       \E j \in JobsFor(f) : ProcessSpawn(Primary, f, cb, n, j)
  \/ \E j \in Jobs : SpawnProcessDetached(Primary, j)
  \/ \E m \in SUBSET {"READ", "WRITE"} : InheritablePipe(Primary, m)
  \/ \E op \in {"gnupg_create_inbound_pipe", "gnupg_create_outbound_pipe",
               "gnupg_create_pipe"}, r \in BOOLEAN : CreatePipe(Primary, op, r)
  \/ \E f \in PidFlagSets, w \in SUBSET Streams : SpawnProcess(Primary, f, w)
  \/ \E g \in SUBSET Streams : SpawnProcessFd(Primary, g)

SpecLaunch == Init /\ [][NextLaunch]_vars

\* ------------------------------------------------- the command line builder
\* The strings of at most n characters, and the calls looked at: a program
\* name and at most MaxArgs arguments of MaxChars characters in all.
Strings(n) == UNION {[1..k -> Chars] : k \in 0..n}
RECURSIVE StringLists(_, _)
StringLists(k, n) ==
  IF k = 0 THEN {<<>>}
  ELSE UNION {{<<s>> \o r : r \in StringLists(k - 1, n - Len(s))} : s \in Strings(n)}
CmdInputs == UNION {StringLists(k, MaxChars) : k \in 1..(MaxArgs + 1)}

InitCmd ==
  /\ proc = [h \in Slots |-> NoProcess]
  /\ os = [h \in Slots |-> NoOsProcess]
  /\ delivered = [h \in Slots |-> [s \in Streams |-> 0]]
  /\ last = NoCall
  /\ launch = NoLaunch
  /\ \E c \in CmdInputs :
       cmd = [stage |-> "given", pgmname |-> Head(c), argv |-> Tail(c),
              n |-> 0, cmdline |-> <<>>]

BuildCommandline ==
  /\ cmd.stage = "given"
  /\ \E o \in build_w32_commandline(cmd.pgmname, cmd.argv) :
       cmd' = [cmd EXCEPT !.stage = IF o.ok THEN "built" ELSE "failed",
                          !.n = o.n, !.cmdline = o.cmdline]
  /\ UNCHANGED <<proc, os, delivered, last, launch>>

NextCmd == BuildCommandline

SpecCmd == InitCmd /\ [][NextCmd]_vars

\* ------------------------------------------------------------------ claims
HandOffCalls == {"get_fds", "get_streams", "GET_HANDLES"}
PidWaitCalls == {"wait_processes", "wait_process"}

\* C1: gnupg_process_release of a handle whose terminated flag is false
\* calls the termination primitive, then the blocking wait, then frees the
\* record, and the process is not running when release returns.
C1_ReleaseOfRunningTerminatesAndWaits ==
  (last.op = "release" /\ ~last.pre.terminated) =>
    /\ Called(last.tr, "TerminateProcess")
    /\ Called(last.tr, "WaitForSingleObject")
    /\ Called(last.tr, "xfree")
    /\ Position(last.tr, "TerminateProcess") < Position(last.tr, "WaitForSingleObject")
    /\ Position(last.tr, "WaitForSingleObject") < Position(last.tr, "xfree")
    /\ ~last.running

\* C2: gnupg_process_release of a handle whose terminated flag is set only
\* frees the record: neither the termination primitive nor a wait is called.
C2_ReleaseOfTerminatedOnlyDiscards ==
  (last.op = "release" /\ last.pre.terminated) =>
    /\ ~Called(last.tr, "TerminateProcess")
    /\ ~Called(last.tr, "WaitForSingleObject")
    /\ Called(last.tr, "xfree")

\* C3: gnupg_process_terminate and KILL_WITH_EC never call the termination
\* primitive on a handle whose native reference is the sentinel or whose
\* terminated flag is set.
C3_TerminationIsNoOpWithoutLiveProcess ==
  (/\ last.op \in {"terminate", "KILL_WITH_EC"}
   /\ (last.pre.hProcess = INVALID_HANDLE_VALUE \/ last.pre.terminated))
  => ~Called(last.tr, "TerminateProcess")

\* C4: GET_EXIT_ID and GET_EXIT_CODE on a handle whose terminated flag is
\* false return UNFINISHED, do not read the exit code from the OS, and
\* store no exit status: GET_EXIT_ID stores -1, GET_EXIT_CODE stores nothing.
C4_ExitQueryBeforeTerminationIsUnfinished ==
  (last.op \in {"GET_EXIT_ID", "GET_EXIT_CODE"} /\ ~last.pre.terminated) =>
    /\ last.ec = "GPG_ERR_UNFINISHED"
    /\ ~Called(last.tr, "GetExitCodeProcess")
    /\ last.out = IF last.op = "GET_EXIT_ID" THEN <<-1>> ELSE <<>>

\* The process has exited with code 0 at OS level, the handle has not
\* been waited for, and the query still answers UNFINISHED.
C4_Witness ==
  /\ last.op = "GET_EXIT_CODE"
  /\ ~last.pre.terminated
  /\ last.ec = "GPG_ERR_UNFINISHED"
  /\ os[last.h] = [state |-> "exited", code |-> 0]

\* A wait that saw the process finished: it made the wait call and
\* returned success.
WaitSawFinish == last.op = "wait" /\ last.ec = "OK" /\ last.tr # <<>>

C6_TerminatedNeverReset ==
  [][\A h \in Slots :
       (proc[h].alloc = "live" /\ proc[h].terminated /\ proc'[h].alloc = "live")
       => proc'[h].terminated]_vars

\* A wait on a handle already marked terminated failed, and the flag is
\* still set.
C6_Witness ==
  /\ last.op = "wait"
  /\ last.pre.terminated
  /\ last.ec = "GPG_ERR_GENERAL"
  /\ proc[last.h].alloc = "live"
  /\ proc[last.h].terminated

\* C7: each retained stream end reaches the caller as a live handle at most
\* once, and after a hand-off call every field it was asked for holds the
\* sentinel.
C7_StreamEndHandedOffAtMostOnce ==
  /\ \A h \in Slots, s \in Streams : delivered[h][s] <= 1
  /\ last.op \in HandOffCalls =>
       \A s \in last.want : proc[last.h][s] = INVALID_HANDLE_VALUE

\* The stdout end was handed off before, and GET_HANDLES asked for it again.
C7_Witness ==
  /\ last.op = "GET_HANDLES"
  /\ "hd_out" \in last.want
  /\ "hd_out" \notin last.pre.held
  /\ proc[last.h].flags = AllPipes
  /\ delivered[last.h]["hd_out"] = 1

\* The processes of the last pid list whose exit code could not be read.
ExitCodeUnread ==
  {i \in 1..Len(last.list) :
     \E k \in 1..Len(last.tr) :
       last.tr[k] = Call("log_error: getting exit code", i)}

AllFinished == last.op \in PidWaitCalls /\ last.wcode = "WAIT_OBJECT_0"

\* C8 as stated: when all listed processes are finished the result is
\* success iff every process exited with 0 and a generic failure otherwise,
\* and a supplied status array holds every process's exit status.
C8_ResultAndStatusesOfFinishedProcesses ==
  AllFinished =>
    /\ (last.ec = "OK") <=> (\A i \in 1..Len(last.list) : os[last.list[i]].code = 0)
    /\ last.ec \in {"OK", "GPG_ERR_GENERAL"}
    /\ last.want # {} =>
         \A i \in 1..Len(last.list) :
           last.codes[i] = Stored(IntOfDword(os[last.list[i]].code))

\* C8 as amended: the same, for the processes whose exit code could be
\* read; a process whose exit code cannot be read makes the result a
\* generic failure and leaves its entry at -1.
C8_ResultAndStatusesWhenExitCodesRead ==
  AllFinished =>
    /\ (last.ec = "OK") <=>
         (/\ ExitCodeUnread = {}
          /\ \A i \in 1..Len(last.list) : os[last.list[i]].code = 0)
    /\ last.ec \in {"OK", "GPG_ERR_GENERAL"}
    /\ last.want # {} =>
         \A i \in 1..Len(last.list) :
           last.codes[i] = IF i \in ExitCodeUnread THEN Stored(-1)
                           ELSE Stored(IntOfDword(os[last.list[i]].code))

\* Three processes, the second exited with 1: failure, statuses 0, 1, 0.
C8_Witness ==
  /\ last.op = "wait_processes"
  /\ last.wcode = "WAIT_OBJECT_0"
  /\ last.list = <<1, 2, 3>>
  /\ last.ec = "GPG_ERR_GENERAL"
  /\ last.codes = <<Stored(0), Stored(1), Stored(0)>>

BlockingListWaitSucceeded == last.op = "wait_list" /\ last.hang /\ last.ec = "OK"

Closes(tr, v) ==
  Cardinality({k \in 1..Len(tr) : tr[k].call = "CloseHandle" /\ tr[k].arg = v})
ProcessSpawnCall == launch.op = "gnupg_process_spawn"
StreamOptions == {PipeFlag(s) : s \in Streams} \cup {NullFlag(s) : s \in Streams}

\* C11: whenever gnupg_process_spawn returns an error the caller's
\* *r_process is NULL: no partial, uninitialised or freed process record is
\* returned, on any failure path, a failing DETACHED launch included.
C11_FailedSpawnReturnsNoProcess ==
  (ProcessSpawnCall /\ ~launch.r_null /\ launch.ec # "OK")
    => launch.r_process = "NULL"

\* Native process creation was attempted and failed.
CreationFailed ==
  /\ ~launch.cp.ok
  /\ Called(launch.tr, "CreateProcessW") \/ Called(launch.tr, "utf8_to_wchar")

\* C12: if process creation fails inside gnupg_process_spawn, every pipe
\* end and null-device handle the call created has been closed exactly once
\* when the error is returned: none stays live and none is closed twice.
C12_CreationFailureClosesEveryHandleOnce ==
  (ProcessSpawnCall /\ CreationFailed)
    => /\ launch.ec = "GPG_ERR_GENERAL"
       /\ \A v \in launch.made : Closes(launch.tr, v) = 1 /\ v \notin launch.open

C12_Witness ==
  /\ ProcessSpawnCall /\ CreationFailed
  /\ launch.flags = {"STDIN_PIPE", "STDOUT_NULL", "STDERR_PIPE"}
  /\ Cardinality(launch.made) = 5
  /\ launch.made \cap launch.open = {}

\* What C14 says of the streams of a returned handle.
RetainedEnds ==
  /\ \A s \in Streams :
       IF PipeFlag(s) \in launch.flags
         THEN /\ launch.p[s] = PipeEnd(launch.id, s)
              /\ PipeEnd(launch.id, s) \in launch.open \ launch.inheritable
              /\ ChildEnd(launch.id, s) \notin launch.open
              /\ Closes(launch.tr, ChildEnd(launch.id, s)) = 1
         ELSE launch.p[s] = INVALID_HANDLE_VALUE
  /\ \A s \in Streams : NullHandle(launch.id, s) \notin launch.open
  /\ \A s, t \in Streams : launch.p[s] # ChildEnd(launch.id, t)

HandleReturned == ProcessSpawnCall /\ launch.ec = "OK" /\ launch.r_process = "process"

\* C14 as stated: after a successful gnupg_process_spawn the returned handle
\* retains the parent's end of every pipe, the child's ends and the null
\* handles are closed, the other streams hold the sentinel, and the handle
\* holds the native process reference with terminated false.
C14_ReturnedHandleOwnsProcessAndKeptEnds ==
  HandleReturned
    => /\ RetainedEnds
       /\ launch.p.hProcess = launch.id /\ launch.id \in launch.open
       /\ ~launch.p.terminated

\* C14, amended: the above for a launch without DETACHED; a DETACHED launch
\* returns a handle with the sentinel in every field and terminated set.
C14_ReturnedHandleOfAttachedLaunch ==
  HandleReturned
    => /\ RetainedEnds
       /\ IF "DETACHED" \in launch.flags
            THEN /\ launch.p.hProcess = INVALID_HANDLE_VALUE
                 /\ launch.p.terminated
                 /\ launch.id \notin launch.open
            ELSE /\ launch.p.hProcess = launch.id /\ launch.id \in launch.open
                 /\ ~launch.p.terminated

C14_Witness ==
  /\ HandleReturned
  /\ launch.flags = {"STDIN_PIPE", "STDOUT_NULL"}
  /\ launch.p.hd_in = PipeEnd(launch.id, "hd_in")
  /\ NullHandle(launch.id, "hd_out") \in launch.made

\* The handles of a sequence.
Range(q) == {q[k] : k \in 1..Len(q)}

\* C16: the handle list made inheritable to the child is exactly the
\* non-sentinel handles among the three chosen for the child (after the
\* callback ran) plus the callback's extra handles: it holds no sentinel,
\* omits no chosen valid handle and holds no end the caller retains.
C16_InheritListIsChosenHandles ==
  (ProcessSpawnCall /\ launch.cp.listed)
    => /\ Range(launch.cp.list)
            = {launch.sca.hd[s] : s \in {t \in Streams :
                                           launch.sca.hd[t] # INVALID_HANDLE_VALUE}}
              \cup Range(launch.sca.inherit_hds)
       /\ \A s \in Streams : PipeEnd(launch.id, s) \notin Range(launch.cp.list)

DetachedWithStreamOption ==
  /\ ProcessSpawnCall
  /\ "DETACHED" \in launch.flags
  /\ launch.flags \cap StreamOptions # {}

C13_FailedSpawnProcessLeavesNothingOpen ==
  (launch.op = "gnupg_spawn_process" /\ launch.ec # "OK")
    => launch.made \cap launch.open = {}

LaunchCall ==
  launch.op \in {"gnupg_process_spawn", "gnupg_spawn_process", "gnupg_spawn_process_fd"}
HandleCreation == {"CreatePipe", "CreatePipe fails", "CreateFileW nul"}
HandleListSetup == {"spawn_cb", "UpdateProcThreadAttribute", "SetHandleInformation"}

\* Pipes and null handles are made, and the handle list settled, before
\* the process is created; the child is resumed only after its creation.
CreationThenResume ==
  \A k, j \in 1..Len(launch.tr) :
    /\ (launch.tr[k].call \in HandleCreation \cup HandleListSetup
        /\ launch.tr[j].call = "CreateProcessW") => k < j
    /\ (launch.tr[k].call = "CreateProcessW" /\ launch.tr[j].call = "ResumeThread")
         => k < j
    /\ launch.tr[j].call = "ResumeThread" => launch.cp.ok

DetachedLaunch == launch.op = "gnupg_process_spawn" /\ "DETACHED" \in launch.flags

WaitOrKill == {"WaitForSingleObject", "WaitForMultipleObjects", "TerminateProcess"}
Hooks(tr) == SelectSeq(tr, LAMBDA c : c.call \in {"pre_syscall", "post_syscall"})

\* C18: every wait or kill system call is immediately preceded by the
\* pre-syscall hook and immediately followed by the post-syscall hook, the
\* hook calls alternate pre, post, and no wait or kill runs outside a pair.
C18_WaitAndKillInsideHookPair ==
  /\ \A k \in 1..Len(last.tr) :
       last.tr[k].call \in WaitOrKill
         => /\ k > 1 /\ last.tr[k - 1] = PRE
            /\ k < Len(last.tr) /\ last.tr[k + 1] = POST
  /\ \A k \in 1..Len(Hooks(last.tr)) :
       Hooks(last.tr)[k] = IF k % 2 = 1 THEN PRE ELSE POST

\* C19: in gnupg_spawn_process a stream without a pipe is given the
\* parent's own stream exactly when the KEEP flag of that same stream is
\* set, and the null device otherwise.
C19_KeepFlagOfTheSameStream ==
  (launch.op = "gnupg_spawn_process" /\ launch.cp.called)
    => \A s \in Streams \ launch.want :
         IF KeepFlag(s) \in launch.flags
           THEN launch.cp.si[s] = StdHandle(s)
           ELSE launch.cp.si[s] \in {NullHandle(launch.id, s), INVALID_HANDLE_VALUE}

\* Opening the null device for stream s was tried and failed.
NullOpenFailed(s) ==
  /\ \E k \in 1..Len(launch.tr) :
       launch.tr[k] = Call("CreateFileW nul", NullHandle(launch.id, s))
  /\ NullHandle(launch.id, s) \notin launch.made

\* C20: when opening the null device fails for a stream to be
\* null-redirected, the launch goes on and the child is given the parent's
\* own standard handle for that stream, not an invalid handle.
C20_FailedNullOpenFallsBackToParentHandle ==
  (LaunchCall /\ launch.cb = "none")
    => \A s \in Streams :
         NullOpenFailed(s)
           => /\ launch.cp.called
              /\ launch.cp.si[s] = StdHandle(s)

\* ---------------------------------------- claims about the parent's job
DetachedCall == launch.op = "gnupg_spawn_process_detached"
BreakoutPermitted ==
  launch.job.in_job /\ "JOB_OBJECT_LIMIT_BREAKAWAY_OK" \in launch.job.limits
JobBlockReached ==
  Called(launch.tr, "IsProcessInJob") \/ Called(launch.tr, "IsProcessInJob fails")
JobAnswered ==
  Called(launch.tr, "IsProcessInJob") /\ Called(launch.tr, "QueryInformationJobObject")
CreationAttempted ==
  Called(launch.tr, "CreateProcessW") \/ Called(launch.tr, "utf8_to_wchar")

\* C21: gnupg_spawn_process_detached passes the breakaway-from-job creation
\* flag exactly when the parent is in a job whose limits permit breakaway
\* (and both job queries answered); with silent breakaway only, with
\* neither, or with a failed query the flag is unset and the launch goes on
\* to process creation: an error comes only from the access check, the
\* command line or process creation.
C21_BreakawayFlagOnlyWhenJobPermits ==
  DetachedCall =>
    /\ launch.cp.called =>
         ("CREATE_BREAKAWAY_FROM_JOB" \in launch.cp.cr_flags
            <=> (BreakoutPermitted /\ JobAnswered))
    /\ JobBlockReached => CreationAttempted
    /\ launch.ec = "OK" => launch.cp.ok
    /\ launch.ec # "OK" =>
         \/ launch.ec \in {"ACCESS_ERROR", "SYSERROR"} /\ ~JobBlockReached
         \/ launch.ec = "GPG_ERR_GENERAL" /\ CreationAttempted /\ ~launch.cp.ok

\* The parent's job permits both kinds of breakaway and the child was
\* created with the flag.
C21_Witness ==
  /\ DetachedCall
  /\ launch.job.limits = JobLimits
  /\ launch.ec = "OK"
  /\ launch.cp.ok
  /\ "CREATE_BREAKAWAY_FROM_JOB" \in launch.cp.cr_flags

\* C22: a gnupg_process_spawn launch with DETACHED, made while the parent
\* is in a job whose limits permit breakaway, creates the child with the
\* breakaway-from-job creation flag.
C22_DetachedSpawnBreaksAway ==
  (ProcessSpawnCall /\ "DETACHED" \in launch.flags /\ BreakoutPermitted
     /\ launch.cp.called)
    => "CREATE_BREAKAWAY_FROM_JOB" \in launch.cp.cr_flags

\* ------------------------------------- claims about terminate and polling
\* A step of gnupg_process_terminate, or of the KILL_WITH_EC request.
ForcedTermination ==
  \/ \E h \in Slots : Terminate(h)
  \/ \E h \in Slots, a \in CtlArgs("KILL_WITH_EC") : Ctl(h, "KILL_WITH_EC", a)

\* C23: a forced termination (gnupg_process_terminate, KILL_WITH_EC) changes
\* no field of any process handle, whether TerminateProcess succeeds or
\* fails; a live handle's terminated flag goes from false to true only in
\* a step of gnupg_process_wait or gnupg_process_wait_list.
C23_TerminationLeavesHandleUnchanged ==
  [][/\ ForcedTermination => proc' = proc
     /\ \A h \in Slots :
          (/\ proc[h].alloc = "live" /\ ~proc[h].terminated
           /\ proc'[h].alloc = "live" /\ proc'[h].terminated)
          => last'.op \in {"wait", "wait_list"}]_vars

\* TerminateProcess ended the child, and the handle is as it was: not
\* terminated, holding its process reference.
C23_Witness ==
  /\ last.op \in {"terminate", "KILL_WITH_EC"}
  /\ Called(last.tr, "TerminateProcess")
  /\ os[last.h].state = "exited"
  /\ proc[last.h].alloc = "live"
  /\ ~proc[last.h].terminated
  /\ proc[last.h].hProcess = last.h

WaitFailed(tr) == Called(tr, "log_error: waiting for process to terminate failed")

\* What a poll must have done, given the state of the child it looked at:
\* still running, the timeout outcome and no field changed; finished,
\* success and the terminated flag set.  A failing wait primitive gives the
\* generic failure and changes nothing.
Polled(h) ==
  IF WaitFailed(last'.tr)
    THEN last'.ec = "GPG_ERR_GENERAL" /\ proc' = proc
  ELSE IF os[h].state = "running"
    THEN last'.ec = "GPG_ERR_TIMEOUT" /\ proc' = proc
  ELSE last'.ec = "OK" /\ proc' = [proc EXCEPT ![h].terminated = TRUE]

\* C24 as stated: gnupg_process_wait with hang false on a process that has
\* not finished returns the timeout outcome, distinct from success and
\* from the generic failure, and changes no field of the handle; a poll
\* after the process has finished returns success and sets terminated.
C24_PollDistinguishesRunningFromFinished ==
  [][\A h \in Slots :
       (Wait(h, FALSE) /\ ~proc[h].terminated /\ os[h].state \in {"running", "exited"})
         => Polled(h)]_vars

\* C24, for a handle that holds its native process reference; after
\* GET_P_HANDLE took the reference the poll returns success without
\* waiting and changes nothing.
C24_PollOfHeldReference ==
  [][\A h \in Slots :
       (Wait(h, FALSE) /\ ~proc[h].terminated /\ os[h].state \in {"running", "exited"})
         => IF proc[h].hProcess # INVALID_HANDLE_VALUE
              THEN Polled(h)
              ELSE last'.ec = "OK" /\ last'.tr = <<>> /\ proc' = proc]_vars

\* A poll found the child running: timeout, and the flag still false.
C24_Witness ==
  /\ last.op = "wait"
  /\ ~last.hang
  /\ last.ec = "GPG_ERR_TIMEOUT"
  /\ last.running
  /\ last.pre.hProcess # INVALID_HANDLE_VALUE
  /\ ~proc[last.h].terminated

Flatten(ss) ==
  LET cat[k \in 0..Len(ss)] == IF k = 0 THEN <<>> ELSE cat[k - 1] \o ss[k]
  IN cat[Len(ss)]
Tokens == <<cmd.pgmname>> \o cmd.argv

\* A token as the claim renders it.
Rendered(t) ==
  IF t = <<>> THEN <<"QUOTE", "QUOTE">>
  ELSE IF \A k \in 1..Len(t) : t[k] \notin {"SP", "TAB", "NL", "VT", "FF", "QUOTE"}
    THEN t
  ELSE <<"QUOTE">>
       \o Flatten([k \in 1..Len(t) |->
                     IF t[k] = "QUOTE" THEN <<"QUOTE", "QUOTE">> ELSE <<t[k]>>])
       \o <<"QUOTE">>

\* C26: the command line build_w32_commandline writes is the rendered
\* tokens, program name first, with exactly one space between neighbours
\* and none before the first or after the last; a token without space,
\* tab, newline, vertical tab, form feed and double quote is rendered as
\* itself, the empty token as two double quotes, any other token between
\* double quotes with each of its double quotes doubled and nothing else
\* added.
C26_CommandLineIsRenderedTokens ==
  cmd.stage = "built" =>
    cmd.cmdline =
      Flatten([k \in 1..Len(Tokens) |->
                 IF k = 1 THEN Rendered(Tokens[k]) ELSE <<"SP">> \o Rendered(Tokens[k])])

\* A command line was built from a program name, an argument that is a
\* double quote, and an empty argument.
C26_Witness ==
  /\ cmd.stage = "built"
  /\ cmd.pgmname = <<"a">>
  /\ cmd.argv = << <<"QUOTE">>, <<>> >>
  /\ cmd.cmdline = <<"a", "SP", "QUOTE", "QUOTE", "QUOTE", "QUOTE",
                     "SP", "QUOTE", "QUOTE">>

\* The native splitting convention: the rules by which the Microsoft C
\* runtime splits a command line into argv.  The program name ends at the
\* first space or tab outside double quotes; its double quotes are dropped
\* and a backslash in it is an ordinary character.
RECURSIVE ScanName(_, _, _, _)
ScanName(c, i, inquote, out) ==
  IF i > Len(c) THEN [tok |-> out, next |-> i]
  ELSE IF c[i] = "QUOTE" THEN ScanName(c, i + 1, ~inquote, out)
  ELSE IF ~inquote /\ c[i] \in {"SP", "TAB"} THEN [tok |-> out, next |-> i + 1]
  ELSE ScanName(c, i + 1, inquote, Append(out, c[i]))

\* One argument, read from position i.  2n backslashes before a double
\* quote give n backslashes and the quote opens or closes a quoted part;
\* 2n+1 backslashes before a double quote give n backslashes and a
\* literal double quote; backslashes elsewhere are ordinary characters;
\* inside a quoted part two double quotes give one literal double quote.
\* The argument ends at a space or tab outside a quoted part.
RECURSIVE ScanArg(_, _, _, _)
ScanArg(c, i, inquote, out) ==
  LET run == {k \in i..Len(c) : \A j \in i..k : c[j] = "BSLASH"}
      numslash == Cardinality(run)
      p == i + numslash
      quote == p <= Len(c) /\ c[p] = "QUOTE"
      even == numslash % 2 = 0
      pair == quote /\ even /\ inquote /\ p + 1 <= Len(c) /\ c[p + 1] = "QUOTE"
      toggle == quote /\ even /\ ~pair
      q == IF pair THEN p + 1 ELSE p
      inq == IF toggle THEN ~inquote ELSE inquote
      slashes == [k \in 1..(IF quote THEN numslash \div 2 ELSE numslash) |-> "BSLASH"]
  IN IF q > Len(c) \/ (~inq /\ c[q] \in {"SP", "TAB"})
       THEN [tok |-> out \o slashes, next |-> q, inquote |-> inq]
       ELSE ScanArg(c, q + 1, inq,
                    IF toggle THEN out \o slashes ELSE Append(out \o slashes, c[q]))

RECURSIVE ScanArgs(_, _, _, _)
ScanArgs(c, i, inquote, args) ==
  IF i > Len(c) THEN args
  ELSE IF c[i] \in {"SP", "TAB"} THEN ScanArgs(c, i + 1, inquote, args)
  ELSE LET r == ScanArg(c, i, inquote, <<>>)
       IN ScanArgs(c, r.next, r.inquote, Append(args, r.tok))

\* C27: the arguments obtained by splitting the built command line with
\* the native convention are the arguments it was built from, and the
\* program name (one that contains no double quote) comes back as well.
C27_SplittingGivesBackTheArguments ==
  cmd.stage = "built" =>
    LET name == ScanName(cmd.cmdline, 1, FALSE, <<>>)
    IN /\ ScanArgs(cmd.cmdline, name.next, FALSE, <<>>) = cmd.argv
       /\ (\A k \in 1..Len(cmd.pgmname) : cmd.pgmname[k] # "QUOTE")
            => name.tok = cmd.pgmname

\* ------------------------------------------ claims about the pipe factory
PipeCalls ==
  {"create_inheritable_pipe", "gnupg_create_inbound_pipe",
   "gnupg_create_outbound_pipe", "gnupg_create_pipe"}
PipeCall == launch.op \in PipeCalls
PipeEnds == {PipeRead(launch.id), PipeWrite(launch.id)}
InheritableEnds == launch.inheritable \cap PipeEnds

\* C28: when the pipe factory succeeds both ends are open, the read end is
\* inheritable exactly if the mask has the read bit and the write end
\* exactly if it has the write bit; so gnupg_create_inbound_pipe gives a
\* pipe with only the write end inheritable, gnupg_create_outbound_pipe
\* one with only the read end inheritable, gnupg_create_pipe one with both.
C28_InheritanceFollowsTheMask ==
  (PipeCall /\ launch.ec = "OK") =>
    /\ PipeEnds \subseteq launch.open
    /\ PipeRead(launch.id) \in InheritableEnds <=> "READ" \in launch.flags
    /\ PipeWrite(launch.id) \in InheritableEnds <=> "WRITE" \in launch.flags
    /\ launch.op = "gnupg_create_inbound_pipe"
         => InheritableEnds = {PipeWrite(launch.id)}
    /\ launch.op = "gnupg_create_outbound_pipe"
         => InheritableEnds = {PipeRead(launch.id)}
    /\ launch.op = "gnupg_create_pipe" => InheritableEnds = PipeEnds

\* An inbound pipe with a stream on its read end was made: only the
\* write end is inheritable.
C28_Witness ==
  /\ launch.op = "gnupg_create_inbound_pipe"
  /\ launch.ec = "OK"
  /\ launch.pipefp = StreamOf(PipeRead(launch.id))
  /\ launch.filedes = <<FdOf(PipeRead(launch.id)), FdOf(PipeWrite(launch.id))>>
  /\ InheritableEnds = {PipeWrite(launch.id)}

\* How often the call closed handle v, as a handle or through a descriptor.
PipeCloses(v) ==
  Cardinality({k \in 1..Len(launch.tr) :
                 launch.tr[k].call \in {"CloseHandle", "close"} /\ launch.tr[k].arg = v})

\* C29: when the pipe factory returns an error, at whichever step it
\* failed, every handle the call created has been closed exactly once (no
\* end is left open, none is closed twice) and both descriptors are -1.
C29_FailedPipeLeavesNoEndOpen ==
  (PipeCall /\ launch.ec # "OK") =>
    /\ launch.made \cap launch.open = {}
    /\ \A v \in launch.made : PipeCloses(v) = 1
    /\ launch.filedes = <<-1, -1>>

\* C30: the native process reference of a handle is given a live handle
\* only by the launch, and then the handle of the process that launch
\* created; afterwards every step leaves it as it is or, in GET_P_HANDLE
\* only, replaces it by the sentinel: it never becomes the handle of
\* another process and never goes from the sentinel back to a live handle.
C30_ProcessReferenceSetOnceAtLaunch ==
  [][\A h \in Slots :
       /\ (proc[h].alloc = "none" /\ proc'[h].alloc = "live")
            => proc'[h].hProcess \in {h, INVALID_HANDLE_VALUE}
       /\ (proc[h].alloc = "live" /\ proc'[h].alloc = "live")
            => \/ proc'[h].hProcess = proc[h].hProcess
               \/ /\ proc'[h].hProcess = INVALID_HANDLE_VALUE
                  /\ last'.op = "GET_P_HANDLE"
                  /\ last'.h = h]_vars

\* GET_P_HANDLE took the reference out, and a later wait found the
\* sentinel still in the field.
C30_Witness ==
  /\ last.op = "wait"
  /\ last.pre.hProcess = INVALID_HANDLE_VALUE
  /\ proc[last.h].alloc = "live"
  /\ "DETACHED" \notin proc[last.h].flags
  /\ proc[last.h].hProcess = INVALID_HANDLE_VALUE
  /\ os[last.h].state = "running"

\* ------------------------------------------ claims about the access check
DetachedLaunchCall ==
  DetachedCall \/ (ProcessSpawnCall /\ "DETACHED" \in launch.flags)
AccessDenied ==
  \E k \in 1..Len(launch.tr) : launch.tr[k] = Call("gnupg_access", 1)
FirstCreationStep ==
  CHOOSE k \in 1..Len(launch.tr) :
    /\ launch.tr[k].call \in {"CreateProcessW", "utf8_to_wchar"}
    /\ \A j \in 1..(k - 1) : launch.tr[j].call \notin {"CreateProcessW", "utf8_to_wchar"}

\* C31: a detached launch (gnupg_spawn_process_detached, or
\* gnupg_process_spawn with DETACHED) runs the access check on the program
\* path before it attempts process creation; when the check fails the call
\* returns the check's error and the process-creation primitive is never
\* invoked.
C31_AccessCheckBeforeDetachedCreation ==
  DetachedLaunchCall =>
    /\ CreationAttempted =>
         /\ Called(launch.tr, "gnupg_access")
         /\ Position(launch.tr, "gnupg_access") < FirstCreationStep
         /\ ~AccessDenied
    /\ AccessDenied =>
         /\ launch.ec = "ACCESS_ERROR"
         /\ ~CreationAttempted
         /\ ~launch.cp.called
         /\ launch.child = NoOsProcess

\* A DETACHED gnupg_process_spawn whose access check failed.
C31_Witness ==
  /\ ProcessSpawnCall /\ "DETACHED" \in launch.flags
  /\ AccessDenied
  /\ launch.ec = "ACCESS_ERROR"
  /\ launch.p.alloc = "freed"

\* ----------------------------------- claims about the handles a launch closes
\* The kernel handles the call has closed, the sentinel left aside.
ClosedHandles ==
  {launch.tr[k].arg : k \in {j \in 1..Len(launch.tr) :
                               /\ launch.tr[j].call \in {"CloseHandle", "es_fclose"}
                               /\ launch.tr[j].arg # INVALID_HANDLE_VALUE}}

\* C32: on every path, success or failure, gnupg_process_spawn and
\* gnupg_spawn_process close only handles the same call opened itself (pipe
\* ends, null-device handles, the handles of the new process); a standard
\* handle of the parent that was obtained for inheritance is never closed.
C32_LaunchClosesOnlyItsOwnHandles ==
  launch.op \in {"gnupg_process_spawn", "gnupg_spawn_process"}
    => /\ ClosedHandles \subseteq launch.made
       /\ \A s \in Streams : StdHandle(s) \in launch.open

\* --------------------------------- claims about what a release leaves open
\* C33: gnupg_process_release of a handle a successful gnupg_process_spawn
\* returned closes the native process handle (unless GET_P_HANDLE took it)
\* and every stream end the handle still holds, each exactly once, so that
\* no kernel handle of the launch stays open in the parent.
C33_ReleaseClosesWhatTheHandleOwns ==
  last.op = "release" =>
    /\ last.pre.hProcess # INVALID_HANDLE_VALUE
         => Closes(last.tr, last.pre.hProcess) = 1
    /\ \A s \in last.pre.held : Closes(last.tr, PipeEnd(last.h, s)) = 1

\* ------------------------------ claims about what forced termination returns
\* TerminateProcess, called in this step on the process handle h holds,
\* succeeded: it ended the running child.
PrimitiveEndedChild(h) == os[h].state = "running" /\ os'[h].state = "exited"

\* C34: gnupg_process_terminate and the KILL_WITH_EC request return success
\* exactly when the termination primitive they called succeeded, and an
\* error exactly when it failed.
C34_TerminationReportsPrimitiveOutcome ==
  [][\A h \in Slots :
       (/\ Terminate(h) \/ \E a \in CtlArgs("KILL_WITH_EC") : Ctl(h, "KILL_WITH_EC", a)
        /\ proc[h].hProcess = h
        /\ Called(last'.tr, "TerminateProcess"))
       => (last'.ec = "OK" <=> PrimitiveEndedChild(h))]_vars

\* ---------------------------------------- claims about fire-and-forget
\* gnupg_process_spawn was called without r_process and created the child.
FireAndForget == ProcessSpawnCall /\ launch.r_null /\ launch.cp.ok
FirstCall(tr, name) ==
  CHOOSE k \in 1..Len(tr) :
    tr[k].call = name /\ \A j \in 1..(k - 1) : tr[j].call # name
LastCall(tr, name) ==
  CHOOSE k \in 1..Len(tr) :
    tr[k].call = name /\ \A j \in (k + 1)..Len(tr) : tr[j].call # name
\* The wait made by the launch itself (the first one) failed.
LaunchWaitFailed ==
  LET k == FirstCall(launch.tr, "WaitForSingleObject") + 2
  IN k <= Len(launch.tr)
     /\ launch.tr[k].call = "log_error: waiting for process to terminate failed"
\* Resume, then the wait, then the record freed, and the wait's result
\* returned.
WaitThenRelease ==
  /\ launch.done
  /\ Called(launch.tr, "WaitForSingleObject") /\ Called(launch.tr, "xfree")
  /\ FirstCall(launch.tr, "ResumeThread") < FirstCall(launch.tr, "WaitForSingleObject")
  /\ LastCall(launch.tr, "WaitForSingleObject") < LastCall(launch.tr, "xfree")
  /\ launch.ec = (IF LaunchWaitFailed THEN "GPG_ERR_GENERAL" ELSE "OK")
  /\ launch.p.alloc = "freed"

\* C35 as stated: without r_process a successful launch is followed by a
\* blocking wait and a release inside the call; the call returns only after
\* the child has terminated, returns the wait's result, and the process
\* record is no longer live.
C35_FireAndForgetReturnsAfterChildEnded ==
  FireAndForget => (WaitThenRelease /\ launch.child.state # "running")

\* C35, amended: the above, the child having terminated when the call
\* returns success; a failed wait returns its error with the child possibly
\* still running.
C35_FireAndForgetWaitsThenReleases ==
  FireAndForget =>
    /\ WaitThenRelease
    /\ launch.ec = "OK" => launch.child.state = "exited"

\* The child was waited for and has ended; its record is freed.
C35_Witness ==
  /\ FireAndForget
  /\ "STDIN_NULL" \in launch.flags
  /\ launch.ec = "OK"
  /\ launch.child.state = "exited"
  /\ launch.p.alloc = "freed"

\* ------------------------------------ claims about the command line buffer
\* C36: the size build_w32_commandline computes before it allocates is at
\* least the length of the command line it writes plus the terminating
\* NUL, whatever the program name and the arguments (empty strings, strings
\* that need quoting and strings of double quotes only included).
C36_BufferHoldsTheCommandLine ==
  cmd.stage = "built" => cmd.n >= Len(cmd.cmdline) + 1

\* A program name of two double quotes and an empty argument.
C36_Witness ==
  /\ cmd.stage = "built"
  /\ cmd.pgmname = <<"QUOTE", "QUOTE">>
  /\ cmd.argv = << <<>> >>
  /\ Len(cmd.cmdline) = 9
  /\ cmd.n = 11

====
